---- MODULE Spec2Model ----
(***************************************************************************)
(* Model of portfolio-rebalancer: allocation validation, drift             *)
(* calculation, the publish step, queue initialisation at process start,   *)
(* the /portfolio and /rebalance request handlers, the Kafka consumer with *)
(* the transaction index it writes to, and the shutdown sequence of main.  *)
(*                                                                         *)
(* Percentages are float64 in the source.  The model keeps them as exact   *)
(* fixed-point integers in units of 0.005 percentage points, so that the   *)
(* 0.01 thresholds of the code are 2 units and a non-zero value below the  *)
(* threshold (1 unit) exists.  NaN and the infinities are left out: the    *)
(* allocations of the program all come from encoding/json decoding, which  *)
(* cannot produce them.                                                    *)
(***************************************************************************)
EXTENDS Integers, Sequences, FiniteSets, TLC

VARIABLES
    calc,        \* one application of CalculateRebalance: inputs and result
    val,         \* one application of ValidateAllocation: input and result
    phase,       \* position of main(): "boot" before kafka.Init, then "serving", "exited" once main returned
    brokerEnv,   \* KAFKA_BROKER/KAFKA_TOPIC and broker state seen by kafka.Init
    writer,      \* package variable kafka.writer: "nil" or "set"
    publisher,   \* the messaging.Publisher main() hands to NewRebalanceService
    portfolios,  \* Elasticsearch index "portfolios": document id -> document
    topic,       \* the Kafka topic: sequence of message values written so far
    req,         \* per HTTP handler goroutine: the request it is serving
    now,         \* latest reading of time.Now(), in ticks of 1/TicksPerSecond second
    started,     \* number of HTTP requests accepted so far
    consumer,    \* the goroutine of kafka.StartConsumer: state, position, history
    group,       \* broker side of the consumer group: the committed offset
    rebalance_transactions, \* the Elasticsearch index of that name: document id -> document
    ctx          \* the context main() hands to StartConsumer: "live" or "cancelled"

\* the variables of the consuming side
consumerVars == <<consumer, group, rebalance_transactions, ctx>>

vars == <<calc, val, phase, brokerEnv, writer, publisher, portfolios, topic, req, now, started, consumer, group, rebalance_transactions, ctx>>

-----------------------------------------------------------------------------
(* Fixed-point scale and the thresholds of the source                      *)

\* 100.0 (percent) in units of 0.005
Hundred == 20000

\* the 0.01 tolerance on the sum in ValidateAllocation
SumTolerance == 2

\* the 0.01 dead band of the target loop in CalculateRebalance
DeadBand == 2

\* the 0.01 threshold of the leftover-asset loop in CalculateRebalance
DivestThreshold == 2

\* the clock ticks this many times per second; time.RFC3339 keeps whole seconds
TicksPerSecond == 2

\* bounds of the model
MaxRequests == 2
MaxTime == 2
CalcMaxValue == 3
MaxSlack == 3
MaxTopic == 2
MaxReadErrors == 1
MaxCrashes == 1

Assets == {"stocks", "bonds", "gold"}

NoDoc == [missing |-> TRUE]

-----------------------------------------------------------------------------
(* Helpers standing for Go built-ins                                       *)

\* math.Abs
Abs(x) == IF x < 0 THEN -x ELSE x

\* m[k] on a Go map: the zero value when the key is missing
Lookup(m, k) == IF k \in DOMAIN m THEN m[k] ELSE 0

\* every order in which a range loop may visit the keys of a map
IterationOrders(m) ==
    LET n == Cardinality(DOMAIN m)
    IN  {o \in [1..n -> DOMAIN m] : \A i, j \in 1..n : i # j => o[i] # o[j]}

\* all maps from a subset of Assets to values in V
AllocationsOver(V) == UNION {[S -> V] : S \in SUBSET Assets}

RECURSIVE SumOver(_, _)
SumOver(m, keys) ==
    IF keys = {} THEN 0
    ELSE LET k == CHOOSE x \in keys : TRUE
         IN  m[k] + SumOver(m, keys \ {k})

\* time.Now().UTC().Format(time.RFC3339): the clock cut to whole seconds
FormatRFC3339(t) == t \div TicksPerSecond

-----------------------------------------------------------------------------
(* models.ValidateAllocation                                               *)

\* ValidateAllocation with the tolerance test written >= instead of >
ValidateAllocation_StrictTolerance(allocation) ==
    IF DOMAIN allocation = {} THEN "allocation cannot be empty"
    ELSE IF \E a \in DOMAIN allocation : allocation[a] < 0
         THEN "allocation cannot be negative"
    ELSE IF Abs(SumOver(allocation, DOMAIN allocation) - Hundred) >= SumTolerance
         THEN "allocation must sum to 100%"
    ELSE "nil"

\* the error returned, "nil" for success.  The loop returns at the first
\* negative value it meets, so any negative value gives the negative error
\* whatever the iteration order; the sum is tested only after the loop.
ValidateAllocation(allocation) ==
    IF DOMAIN allocation = {} THEN "allocation cannot be empty"
    ELSE IF \E a \in DOMAIN allocation : allocation[a] < 0
         THEN "allocation cannot be negative"
    ELSE IF Abs(SumOver(allocation, DOMAIN allocation) - Hundred) > SumTolerance
         THEN "allocation must sum to 100%"
    ELSE "nil"

-----------------------------------------------------------------------------
(* services.RebalanceServiceImpl.CalculateRebalance                        *)

RebalanceTransaction(userID, action, asset, percent, timestamp) ==
    [UserID |-> userID, Action |-> action, Asset |-> asset,
     RebalancePercent |-> percent, Timestamp |-> timestamp]

\* TargetLoop with the dead band test written <= instead of <
RECURSIVE TargetLoop_InclusiveBand(_, _, _, _, _)
TargetLoop_InclusiveBand(order, currentAllocation, targetAllocation, userID, timestamp) ==
    IF order = <<>> THEN <<>>
    ELSE LET asset == Head(order)
             diff  == Lookup(currentAllocation, asset) - targetAllocation[asset]
             rest  == TargetLoop_InclusiveBand(Tail(order), currentAllocation,
                                               targetAllocation, userID, timestamp)
         IN  IF Abs(diff) <= DeadBand THEN rest
             ELSE IF diff > 0
                  THEN <<RebalanceTransaction(userID, "SELL", asset, diff, timestamp)>>
                       \o rest
                  ELSE <<RebalanceTransaction(userID, "BUY", asset, Abs(diff), timestamp)>>
                       \o rest

\* TargetLoop whose BUY keeps the sign of the difference
RECURSIVE TargetLoop_SignedBuy(_, _, _, _, _)
TargetLoop_SignedBuy(order, currentAllocation, targetAllocation, userID, timestamp) ==
    IF order = <<>> THEN <<>>
    ELSE LET asset == Head(order)
             diff  == Lookup(currentAllocation, asset) - targetAllocation[asset]
             rest  == TargetLoop_SignedBuy(Tail(order), currentAllocation,
                                           targetAllocation, userID, timestamp)
         IN  IF Abs(diff) < DeadBand THEN rest
             ELSE IF diff > 0
                  THEN <<RebalanceTransaction(userID, "SELL", asset, diff, timestamp)>>
                       \o rest
                  ELSE <<RebalanceTransaction(userID, "BUY", asset, diff, timestamp)>>
                       \o rest

\* TargetLoop without the dead band: only a zero difference is skipped
RECURSIVE TargetLoop_NoDeadBand(_, _, _, _, _)
TargetLoop_NoDeadBand(order, currentAllocation, targetAllocation, userID, timestamp) ==
    IF order = <<>> THEN <<>>
    ELSE LET asset == Head(order)
             diff  == Lookup(currentAllocation, asset) - targetAllocation[asset]
             rest  == TargetLoop_NoDeadBand(Tail(order), currentAllocation,
                                            targetAllocation, userID, timestamp)
         IN  IF diff = 0 THEN rest
             ELSE IF diff > 0
                  THEN <<RebalanceTransaction(userID, "SELL", asset, diff, timestamp)>>
                       \o rest
                  ELSE <<RebalanceTransaction(userID, "BUY", asset, Abs(diff), timestamp)>>
                       \o rest

\* first loop: for asset, targetPercent := range targetAllocation
RECURSIVE TargetLoop(_, _, _, _, _)
TargetLoop(order, currentAllocation, targetAllocation, userID, timestamp) ==
    IF order = <<>> THEN <<>>
    ELSE LET asset == Head(order)
             diff  == Lookup(currentAllocation, asset) - targetAllocation[asset]
             rest  == TargetLoop(Tail(order), currentAllocation, targetAllocation,
                                 userID, timestamp)
         IN  IF Abs(diff) < DeadBand THEN rest
             ELSE IF diff > 0
                  THEN <<RebalanceTransaction(userID, "SELL", asset, diff, timestamp)>>
                       \o rest
                  ELSE <<RebalanceTransaction(userID, "BUY", asset, Abs(diff), timestamp)>>
                       \o rest

\* LeftoverLoop without the test that the asset is missing from the target
RECURSIVE LeftoverLoop_NoExistsCheck(_, _, _, _, _)
LeftoverLoop_NoExistsCheck(order, currentAllocation, targetAllocation, userID, timestamp) ==
    IF order = <<>> THEN <<>>
    ELSE LET asset == Head(order)
             rest  == LeftoverLoop_NoExistsCheck(Tail(order), currentAllocation,
                                                 targetAllocation, userID, timestamp)
         IN  IF currentAllocation[asset] > DivestThreshold
             THEN <<RebalanceTransaction(userID, "SELL", asset,
                                         currentAllocation[asset], timestamp)>> \o rest
             ELSE rest

\* LeftoverLoop with the threshold test written >= instead of >
RECURSIVE LeftoverLoop_InclusiveThreshold(_, _, _, _, _)
LeftoverLoop_InclusiveThreshold(order, currentAllocation, targetAllocation, userID, timestamp) ==
    IF order = <<>> THEN <<>>
    ELSE LET asset == Head(order)
             rest  == LeftoverLoop_InclusiveThreshold(Tail(order), currentAllocation,
                                                      targetAllocation, userID, timestamp)
         IN  IF asset \notin DOMAIN targetAllocation
                /\ currentAllocation[asset] >= DivestThreshold
             THEN <<RebalanceTransaction(userID, "SELL", asset,
                                         currentAllocation[asset], timestamp)>> \o rest
             ELSE rest

\* second loop: for asset, currentPercent := range currentAllocation
RECURSIVE LeftoverLoop(_, _, _, _, _)
LeftoverLoop(order, currentAllocation, targetAllocation, userID, timestamp) ==
    IF order = <<>> THEN <<>>
    ELSE LET asset == Head(order)
             rest  == LeftoverLoop(Tail(order), currentAllocation, targetAllocation,
                                   userID, timestamp)
         IN  IF asset \notin DOMAIN targetAllocation
                /\ currentAllocation[asset] > DivestThreshold
             THEN <<RebalanceTransaction(userID, "SELL", asset,
                                         currentAllocation[asset], timestamp)>> \o rest
             ELSE rest

\* CalculateRebalance that reads the clock again before its second loop, a
\* second later
CalculateRebalance_TwoClockReads(currentAllocation, targetAllocation, userID, clock, targetOrder, currentOrder) ==
    TargetLoop(targetOrder, currentAllocation, targetAllocation, userID, FormatRFC3339(clock))
    \o LeftoverLoop(currentOrder, currentAllocation, targetAllocation,
                    userID, FormatRFC3339(clock + TicksPerSecond))

\* CalculateRebalance with the roles of the two allocations exchanged
CalculateRebalance_Swapped(currentAllocation, targetAllocation, userID, clock, targetOrder, currentOrder) ==
    LET timestamp == FormatRFC3339(clock)
    IN  TargetLoop(currentOrder, targetAllocation, currentAllocation, userID, timestamp)
        \o LeftoverLoop(targetOrder, targetAllocation, currentAllocation,
                        userID, timestamp)

\* targetOrder and currentOrder are the orders in which the two range loops
\* happen to visit the maps; clock is the reading of time.Now()
CalculateRebalance(currentAllocation, targetAllocation, userID, clock, targetOrder, currentOrder) ==
    LET timestamp == FormatRFC3339(clock)
    IN  TargetLoop(targetOrder, currentAllocation, targetAllocation, userID, timestamp)
        \o LeftoverLoop(currentOrder, currentAllocation, targetAllocation,
                        userID, timestamp)

-----------------------------------------------------------------------------
(* Inputs of the two pure functions, and the idle values of the variables  *)
(* a specification does not use                                            *)

\* values around the 0.01 thresholds: 0, 0.005, 0.01, 0.015, ...
CalcAllocations == AllocationsOver(0..CalcMaxValue)

CalcClocks == {TicksPerSecond + 1}

\* values that make the sum fall on both sides of 100 +/- 0.01
ValidateValues == {-1, 0, 1, 3, 9999, 10000, 10001, 19997, 20000}

EmptyAllocation == [a \in {} |-> 0]

CalcIdle ==
    [current |-> EmptyAllocation, target |-> EmptyAllocation, userID |-> "",
     clock |-> 0, done |-> FALSE, result |-> <<>>]

ValIdle == [allocation |-> EmptyAllocation, done |-> FALSE, result |-> "nil"]

-----------------------------------------------------------------------------
(* pkg/kafka: Init, NewPublisher, Publisher.Publish                        *)

BrokerEnvs == {"unset", "reachable", "unreachable"}

\* one call to the Queue or the Store, with the error it returned
Call(op, err) == [op |-> op, err |-> err]

\* a nil messaging.Publisher interface value
NilPublisher == [nilInterface |-> TRUE]

\* kafka.Init that returns the dial error instead of logging it
KafkaInit_ReturnDialError(env) ==
    IF env = "unset" THEN [writer |-> "nil", err |-> "nil"]
    ELSE IF env = "unreachable" THEN [writer |-> "set", err |-> "dial tcp: connection refused"]
    ELSE [writer |-> "set", err |-> "nil"]

\* kafka.Init: env "unset" is KAFKA_BROKER or KAFKA_TOPIC empty; otherwise the
\* package writer is assigned before the broker is dialled, and a failed dial
\* only logs.  Every path returns a nil error.
KafkaInit(env) ==
    IF env = "unset" THEN [writer |-> "nil", err |-> "nil"]
    ELSE [writer |-> "set", err |-> "nil"]

NewPublisher(w) == [writer |-> w]

\* Publisher.Publish; writeResult is what writer.WriteMessages returns when it
\* is called.  calls lists the Queue calls made, written the messages the
\* broker accepted.
Publish(p, message, writeResult) ==
    IF p.writer = "nil"
    THEN [err |-> "nil", calls |-> <<>>, written |-> <<>>]
    ELSE [err |-> writeResult, calls |-> <<Call("WriteMessages", writeResult)>>,
          written |-> IF writeResult = "nil" THEN <<message>> ELSE <<>>]

-----------------------------------------------------------------------------
(* encoding/json on the records of internal/models                         *)

\* json.Marshal fails on a float64 only for NaN and the infinities
IsFinite(x) == x \in Int

MarshalTransaction(tx) ==
    [user_id |-> tx.UserID, action |-> tx.Action, asset |-> tx.Asset,
     rebalance_percent |-> tx.RebalancePercent, timestamp |-> tx.Timestamp]

\* an encoder that writes the array back to front
MarshalTransactions_Reversed(transactions) ==
    [err |-> "nil",
     payload |-> [array |-> [i \in DOMAIN transactions |->
                               MarshalTransaction(transactions[Len(transactions) + 1 - i])]]]

\* json.Marshal of []models.RebalanceTransaction: a JSON array of objects
MarshalTransactions(transactions) ==
    IF \E i \in DOMAIN transactions : ~IsFinite(transactions[i].RebalancePercent)
    THEN [err |-> "json: unsupported value", payload |-> [array |-> <<>>]]
    ELSE [err |-> "nil",
          payload |-> [array |-> [i \in DOMAIN transactions |->
                                    MarshalTransaction(transactions[i])]]]

MarshalPortfolio(p) ==
    [user_id |-> p.UserID, allocation |-> p.Allocation,
     original_allocation |-> p.OriginalAllocation]

UnmarshalPortfolio(doc) ==
    [UserID |-> doc.user_id, Allocation |-> doc.allocation,
     OriginalAllocation |-> doc.original_allocation]

-----------------------------------------------------------------------------
(* services.RebalanceServiceImpl.PublishRebalanceTransactions              *)

\* PublishRebalanceTransactions without the early return on an empty batch
PublishRebalanceTransactions_NoEmptyCheck(pub, transactions, writeResult) ==
    LET m == MarshalTransactions(transactions)
        r == Publish(pub, m.payload, writeResult)
    IN  IF r.err # "nil"
        THEN [err |-> "failed to publish transactions",
              calls |-> r.calls, written |-> r.written]
        ELSE [err |-> "nil", calls |-> r.calls, written |-> r.written]

\* PublishRebalanceTransactions that logs the error of Publish and returns nil
PublishRebalanceTransactions_SwallowError(pub, transactions, writeResult) ==
    IF Len(transactions) = 0
    THEN [err |-> "nil", calls |-> <<>>, written |-> <<>>]
    ELSE LET r == Publish(pub, MarshalTransactions(transactions).payload, writeResult)
         IN  [err |-> "nil", calls |-> r.calls, written |-> r.written]

PublishRebalanceTransactions(pub, transactions, writeResult) ==
    IF Len(transactions) = 0
    THEN [err |-> "nil", calls |-> <<>>, written |-> <<>>]
    ELSE LET m == MarshalTransactions(transactions)
         IN  IF m.err # "nil"
             THEN [err |-> "failed to marshal transactions",
                   calls |-> <<>>, written |-> <<>>]
             ELSE IF pub = NilPublisher
             THEN [err |-> "panic: nil pointer dereference",
                   calls |-> <<>>, written |-> <<>>]
             ELSE LET r == Publish(pub, m.payload, writeResult)
                  IN  IF r.err # "nil"
                      THEN [err |-> "failed to publish transactions",
                            calls |-> r.calls, written |-> r.written]
                      ELSE [err |-> "nil", calls |-> r.calls, written |-> r.written]

-----------------------------------------------------------------------------
(* internal/repository: the Elasticsearch index "portfolios"               *)

\* outcome of one Elasticsearch call: answered, or failed (transport error,
\* timeout of the 10 s context, error status)
StoreOutcomes == {"ok", "error"}

\* what writer.WriteMessages may return
WriteResults == {"nil", "kafka error"}

\* GetByUserID that does not test res.IsError(): a missing document decodes
\* into the zero Portfolio
GetByUserID_MissingAsEmpty(index, userID, outcome) ==
    IF outcome = "error"
    THEN [err |-> "elasticsearch error", portfolio |-> NoDoc,
          calls |-> <<Call("Get", "elasticsearch error")>>]
    ELSE IF userID \notin DOMAIN index
    THEN [err |-> "nil",
          portfolio |-> [UserID |-> "", Allocation |-> EmptyAllocation,
                         OriginalAllocation |-> EmptyAllocation],
          calls |-> <<Call("Get", "user not found")>>]
    ELSE [err |-> "nil", portfolio |-> UnmarshalPortfolio(index[userID]),
          calls |-> <<Call("Get", "nil")>>]

\* PortfolioRepositoryImpl.GetByUserID
GetByUserID(index, userID, outcome) ==
    IF outcome = "error"
    THEN [err |-> "elasticsearch error", portfolio |-> NoDoc,
          calls |-> <<Call("Get", "elasticsearch error")>>]
    ELSE IF userID \notin DOMAIN index
    THEN [err |-> "user not found", portfolio |-> NoDoc,
          calls |-> <<Call("Get", "user not found")>>]
    ELSE [err |-> "nil", portfolio |-> UnmarshalPortfolio(index[userID]),
          calls |-> <<Call("Get", "nil")>>]

\* index after client.Index(..., WithDocumentID(id)): create or overwrite
IndexDocument(index, id, doc) ==
    [k \in DOMAIN index \cup {id} |-> IF k = id THEN doc ELSE index[k]]

\* PortfolioRepositoryImpl.Save
Save(index, p, outcome) ==
    IF outcome = "error"
    THEN [err |-> "error saving portfolio", index |-> index,
          calls |-> <<Call("Index", "error saving portfolio")>>]
    ELSE [err |-> "nil", index |-> IndexDocument(index, p.UserID, MarshalPortfolio(p)),
          calls |-> <<Call("Index", "nil")>>]

-----------------------------------------------------------------------------
(* internal/services: PortfolioService                                     *)

\* CreatePortfolio without the copy of lines 44-47: OriginalAllocation stays
\* as the request body gave it
CreatePortfolio_NoCopy(index, p, outcome) ==
    IF p.UserID = ""
    THEN [err |-> "user_id is required and cannot be empty", index |-> index,
          portfolio |-> NoDoc, calls |-> <<>>]
    ELSE IF DOMAIN p.Allocation = {}
    THEN [err |-> "allocation is required and cannot be empty", index |-> index,
          portfolio |-> NoDoc, calls |-> <<>>]
    ELSE IF ValidateAllocation(p.Allocation) # "nil"
    THEN [err |-> ValidateAllocation(p.Allocation), index |-> index,
          portfolio |-> NoDoc, calls |-> <<>>]
    ELSE LET saved == Save(index, p, outcome)
         IN  IF saved.err # "nil"
             THEN [err |-> "failed to save portfolio", index |-> saved.index,
                   portfolio |-> NoDoc, calls |-> saved.calls]
             ELSE [err |-> "nil", index |-> saved.index, portfolio |-> p,
                   calls |-> saved.calls]

\* CreatePortfolio that validates the allocation before it looks at the user
\* identifier, and saves whatever passes
CreatePortfolio_ValidateFirst(index, p, outcome) ==
    IF ValidateAllocation(p.Allocation) # "nil"
    THEN [err |-> ValidateAllocation(p.Allocation), index |-> index,
          portfolio |-> NoDoc, calls |-> <<>>]
    ELSE IF p.UserID = ""
    THEN [err |-> "user_id is required and cannot be empty", index |-> index,
          portfolio |-> NoDoc, calls |-> <<>>]
    ELSE LET created == [p EXCEPT !.OriginalAllocation =
                                     [k \in DOMAIN p.Allocation |-> p.Allocation[k]]]
             saved   == Save(index, created, outcome)
         IN  IF saved.err # "nil"
             THEN [err |-> "failed to save portfolio", index |-> saved.index,
                   portfolio |-> NoDoc, calls |-> saved.calls]
             ELSE [err |-> "nil", index |-> saved.index, portfolio |-> created,
                   calls |-> saved.calls]

\* PortfolioServiceImpl.CreatePortfolio: the checks in their order, then the
\* copy of Allocation into OriginalAllocation, then the repository Save
CreatePortfolio(index, p, outcome) ==
    IF p.UserID = ""
    THEN [err |-> "user_id is required and cannot be empty", index |-> index,
          portfolio |-> NoDoc, calls |-> <<>>]
    ELSE IF DOMAIN p.Allocation = {}
    THEN [err |-> "allocation is required and cannot be empty", index |-> index,
          portfolio |-> NoDoc, calls |-> <<>>]
    ELSE IF ValidateAllocation(p.Allocation) # "nil"
    THEN [err |-> ValidateAllocation(p.Allocation), index |-> index,
          portfolio |-> NoDoc, calls |-> <<>>]
    ELSE LET created == [p EXCEPT !.OriginalAllocation =
                                     [k \in DOMAIN p.Allocation |-> p.Allocation[k]]]
             saved   == Save(index, created, outcome)
         IN  IF saved.err # "nil"
             THEN [err |-> "failed to save portfolio", index |-> saved.index,
                   portfolio |-> NoDoc, calls |-> saved.calls]
             ELSE [err |-> "nil", index |-> saved.index, portfolio |-> created,
                   calls |-> saved.calls]

\* PortfolioServiceImpl.GetPortfolio
GetPortfolio(index, userID, outcome) ==
    IF userID = ""
    THEN [err |-> "user_id is required and cannot be empty", portfolio |-> NoDoc,
          calls |-> <<>>]
    ELSE LET got == GetByUserID(index, userID, outcome)
         IN  IF got.err # "nil"
             THEN [err |-> "portfolio not found for user", portfolio |-> NoDoc,
                   calls |-> got.calls]
             ELSE got

\* PortfolioServiceImpl.UpdatePortfolio
UpdatePortfolio(index, p, outcome) ==
    IF p.UserID = ""
    THEN [err |-> "user_id is required and cannot be empty", index |-> index, calls |-> <<>>]
    ELSE IF ValidateAllocation(p.Allocation) # "nil"
    THEN [err |-> ValidateAllocation(p.Allocation), index |-> index, calls |-> <<>>]
    ELSE LET saved == Save(index, p, outcome)
         IN  IF saved.err # "nil"
             THEN [err |-> "failed to update portfolio", index |-> saved.index,
                   calls |-> saved.calls]
             ELSE saved

-----------------------------------------------------------------------------
(* Requests the clients send                                               *)

ReqUserIDs == {"", "u1"}

\* 60/40, 50/30/20, 60.005/40 (inside every 0.01 band of 60/40), 60/30 (sums
\* to 90), a negative share, and the empty mapping
A6040 == [a \in {"stocks", "bonds"} |-> IF a = "stocks" THEN 12000 ELSE 8000]

A503020 == [a \in Assets |-> IF a = "stocks" THEN 10000 ELSE IF a = "bonds" THEN 6000 ELSE 4000]

ANear6040 == [a \in {"stocks", "bonds"} |-> IF a = "stocks" THEN 12001 ELSE 8000]

A6030 == [a \in {"stocks", "bonds"} |-> IF a = "stocks" THEN 12000 ELSE 6000]

ANegative == [a \in {"stocks", "bonds"} |-> IF a = "stocks" THEN 20001 ELSE -1]

ReqAllocations == {A6040, A503020, ANear6040, A6030, ANegative, EmptyAllocation}

\* the requests as the handlers see them: a wrong method, a body that does not
\* decode, or a decoded body
HttpRequests ==
    {[method |-> "GET", bodyOK |-> TRUE, UserID |-> "", Allocation |-> EmptyAllocation],
     [method |-> "POST", bodyOK |-> FALSE, UserID |-> "", Allocation |-> EmptyAllocation]}
    \cup [method : {"POST"}, bodyOK : {TRUE}, UserID : ReqUserIDs, Allocation : ReqAllocations]

-----------------------------------------------------------------------------
(* The HTTP handler goroutines                                             *)

Handlers == {"h1", "h2"}

NoResponse == [status |-> 0, message |-> "", transactions |-> <<>>, transaction_count |-> 0]

\* RespondWithError
RespondWithError(code, message) ==
    [status |-> code, message |-> message, transactions |-> <<>>, transaction_count |-> 0]

ReqIdle ==
    [pc |-> "idle", route |-> "", UserID |-> "", NewAllocation |-> EmptyAllocation,
     portfolio |-> NoDoc, transactions |-> <<>>, publishErr |-> "nil",
     calls |-> <<>>, resp |-> NoResponse]

\* a handler goroutine is free to serve the next request
Free(h) == req[h].pc \in {"idle", "done"}

Accepting(h) == phase = "serving" /\ Free(h) /\ started < MaxRequests

\* HandleRebalance without the call of ValidateAllocation
HandleRebalance_Validate_NoValidation(method, bodyOK, userID, newAllocation) ==
    LET fail(code, message) ==
            [ReqIdle EXCEPT !.pc = "done", !.route = "/rebalance",
                            !.resp = RespondWithError(code, message)]
        decoded(message) ==
            [ReqIdle EXCEPT !.pc = "done", !.route = "/rebalance",
                            !.UserID = userID, !.NewAllocation = newAllocation,
                            !.resp = RespondWithError(400, message)]
    IN  IF method # "POST" THEN fail(405, "Only POST method is allowed")
        ELSE IF ~bodyOK THEN fail(400, "Invalid JSON format in request body")
        ELSE IF userID = "" THEN decoded("user_id is required and cannot be empty")
        ELSE IF DOMAIN newAllocation = {}
             THEN decoded("new_allocation is required and cannot be empty")
        ELSE [ReqIdle EXCEPT !.pc = "load", !.route = "/rebalance",
                             !.UserID = userID, !.NewAllocation = newAllocation]

\* HandleRebalance, up to and including ValidateAllocation: no I/O
HandleRebalance_Validate(method, bodyOK, userID, newAllocation) ==
    LET fail(code, message) ==
            [ReqIdle EXCEPT !.pc = "done", !.route = "/rebalance",
                            !.resp = RespondWithError(code, message)]
        decoded(message) ==
            [ReqIdle EXCEPT !.pc = "done", !.route = "/rebalance",
                            !.UserID = userID, !.NewAllocation = newAllocation,
                            !.resp = RespondWithError(400, message)]
    IN  IF method # "POST" THEN fail(405, "Only POST method is allowed")
        ELSE IF ~bodyOK THEN fail(400, "Invalid JSON format in request body")
        ELSE IF userID = "" THEN decoded("user_id is required and cannot be empty")
        ELSE IF DOMAIN newAllocation = {}
             THEN decoded("new_allocation is required and cannot be empty")
        ELSE IF ValidateAllocation(newAllocation) # "nil"
             THEN decoded(ValidateAllocation(newAllocation))
        ELSE [ReqIdle EXCEPT !.pc = "load", !.route = "/rebalance",
                             !.UserID = userID, !.NewAllocation = newAllocation]

\* HandleRebalance, lines 38-66
HandleRebalance_Begin(h) ==
    /\ Accepting(h)
    /\ \E r \in HttpRequests :
          req' = [req EXCEPT ![h] = HandleRebalance_Validate(r.method, r.bodyOK, r.UserID, r.Allocation)]
    /\ started' = started + 1
    /\ UNCHANGED <<consumerVars, calc, val, phase, brokerEnv, writer, publisher, portfolios, topic, now>>

\* the request after "Fetch original portfolio", lines 68-74
HandleRebalance_Fetched(r, got) ==
    IF got.err # "nil"
    THEN [r EXCEPT !.pc = "done", !.calls = r.calls \o got.calls,
                   !.resp = RespondWithError(404, "User portfolio not found")]
    ELSE [r EXCEPT !.pc = "publish", !.calls = r.calls \o got.calls,
                   !.portfolio = got.portfolio]

HandleRebalance_GetPortfolio(h) ==
    /\ req[h].pc = "load"
    /\ \E outcome \in StoreOutcomes :
          req' = [req EXCEPT ![h] = HandleRebalance_Fetched(req[h],
                                       GetPortfolio(portfolios, req[h].UserID, outcome))]
    /\ UNCHANGED <<consumerVars, calc, val, phase, brokerEnv, writer, publisher, portfolios, topic, now, started>>

\* HandleRebalance that carries on to the portfolio update when the publish
\* step failed
HandleRebalance_Published_IgnoreError(r, transactions, pub) ==
    [r EXCEPT !.pc = "update", !.transactions = transactions,
              !.publishErr = pub.err, !.calls = r.calls \o pub.calls]

\* the request after CalculateRebalance and PublishRebalanceTransactions,
\* lines 76-90
HandleRebalance_Published(r, transactions, pub) ==
    IF pub.err # "nil"
    THEN [r EXCEPT !.pc = "done", !.transactions = transactions,
                   !.publishErr = pub.err, !.calls = r.calls \o pub.calls,
                   !.resp = RespondWithError(500, "Failed to queue rebalance transactions")]
    ELSE [r EXCEPT !.pc = "update", !.transactions = transactions,
                   !.publishErr = "nil", !.calls = r.calls \o pub.calls]

\* what the broker does with a WriteMessages call: it answers, or it never
\* does
QueueAnswers == WriteResults \cup {"no answer"}

\* Publish calls writer.WriteMessages with the context of the request
\* (publisher.go line 31), which carries no deadline: HandleRebalance passes
\* r.Context() and nothing on the way adds one.  The call is made for a
\* non-empty batch that marshals, through a publisher that has a writer.
WriteMessagesCalled(pub, transactions) ==
    /\ Len(transactions) > 0
    /\ MarshalTransactions(transactions).err = "nil"
    /\ pub # NilPublisher
    /\ pub.writer # "nil"

\* the request whose WriteMessages call waits for an answer that never comes
HandleRebalance_Waiting(r, transactions) ==
    [r EXCEPT !.pc = "blocked", !.transactions = transactions]

\* the orders of the two range loops and the answer of the broker are chosen
\* by the Go runtime and the network; the clock never runs backwards
HandleRebalance_Publish(h) ==
    /\ req[h].pc = "publish"
    /\ \E clock \in now..MaxTime, targetOrder \in IterationOrders(req[h].portfolio.OriginalAllocation), currentOrder \in IterationOrders(req[h].NewAllocation), writeResult \in QueueAnswers :
          LET transactions == CalculateRebalance(req[h].NewAllocation,
                                  req[h].portfolio.OriginalAllocation, req[h].UserID,
                                  clock, targetOrder, currentOrder)
              pub == PublishRebalanceTransactions(publisher, transactions, writeResult)
          IN  IF writeResult = "no answer" /\ WriteMessagesCalled(publisher, transactions)
              THEN /\ req' = [req EXCEPT ![h] = HandleRebalance_Waiting(req[h], transactions)]
                   /\ topic' = topic
                   /\ now' = clock
              ELSE /\ writeResult \in WriteResults
                   /\ req' = [req EXCEPT ![h] = HandleRebalance_Published(req[h], transactions, pub)]
                   /\ topic' = topic \o pub.written
                   /\ now' = clock
    /\ UNCHANGED <<consumerVars, calc, val, phase, brokerEnv, writer, publisher, portfolios, started>>

\* the response of a request that got past the publish step, lines 99-111
HandleRebalance_Response(r) ==
    [status |-> 200,
     message |-> IF Len(r.transactions) = 0
                 THEN "No rebalancing needed - portfolio already at target allocation"
                 ELSE "Rebalance transactions queued for processing",
     transactions |-> r.transactions,
     transaction_count |-> Len(r.transactions)]

\* HandleRebalance without line 93: the portfolio is written back as loaded
HandleRebalance_UpdatePortfolio_KeepAllocation(h) ==
    /\ req[h].pc = "update"
    /\ \E outcome \in StoreOutcomes :
          LET p == req[h].portfolio
              updated == UpdatePortfolio(portfolios, p, outcome)
          IN  /\ portfolios' = updated.index
              /\ req' = [req EXCEPT ![h] =
                           [req[h] EXCEPT !.pc = "done", !.portfolio = p,
                                          !.calls = req[h].calls \o updated.calls,
                                          !.resp = HandleRebalance_Response(req[h])]]
    /\ UNCHANGED <<consumerVars, calc, val, phase, brokerEnv, writer, publisher, topic, now, started>>

\* HandleRebalance that moves the target along with the current allocation
HandleRebalance_UpdatePortfolio_MoveTarget(h) ==
    /\ req[h].pc = "update"
    /\ \E outcome \in StoreOutcomes :
          LET p == [req[h].portfolio EXCEPT !.Allocation = req[h].NewAllocation,
                                            !.OriginalAllocation = req[h].NewAllocation]
              updated == UpdatePortfolio(portfolios, p, outcome)
          IN  /\ portfolios' = updated.index
              /\ req' = [req EXCEPT ![h] =
                           [req[h] EXCEPT !.pc = "done", !.portfolio = p,
                                          !.calls = req[h].calls \o updated.calls,
                                          !.resp = HandleRebalance_Response(req[h])]]
    /\ UNCHANGED <<consumerVars, calc, val, phase, brokerEnv, writer, publisher, topic, now, started>>

\* HandleRebalance that answers 500 when UpdatePortfolio fails
HandleRebalance_UpdatePortfolio_FailOnError(h) ==
    /\ req[h].pc = "update"
    /\ \E outcome \in StoreOutcomes :
          LET p == [req[h].portfolio EXCEPT !.Allocation = req[h].NewAllocation]
              updated == UpdatePortfolio(portfolios, p, outcome)
          IN  /\ portfolios' = updated.index
              /\ req' = [req EXCEPT ![h] =
                           [req[h] EXCEPT !.pc = "done", !.portfolio = p,
                                          !.calls = req[h].calls \o updated.calls,
                                          !.resp = IF updated.err # "nil"
                                                   THEN RespondWithError(500, updated.err)
                                                   ELSE HandleRebalance_Response(req[h])]]
    /\ UNCHANGED <<consumerVars, calc, val, phase, brokerEnv, writer, publisher, topic, now, started>>

\* "Update portfolio's current allocation", lines 92-111: the error of
\* UpdatePortfolio is logged and the request answers 200 all the same
HandleRebalance_UpdatePortfolio(h) ==
    /\ req[h].pc = "update"
    /\ \E outcome \in StoreOutcomes :
          LET p == [req[h].portfolio EXCEPT !.Allocation = req[h].NewAllocation]
              updated == UpdatePortfolio(portfolios, p, outcome)
          IN  /\ portfolios' = updated.index
              /\ req' = [req EXCEPT ![h] =
                           [req[h] EXCEPT !.pc = "done", !.portfolio = p,
                                          !.calls = req[h].calls \o updated.calls,
                                          !.resp = HandleRebalance_Response(req[h])]]
    /\ UNCHANGED <<consumerVars, calc, val, phase, brokerEnv, writer, publisher, topic, now, started>>

\* handleCreatePortfolio: decode, CreatePortfolio, respond; its one I/O call
\* is the repository Save
\* the request once CreatePortfolio has answered
handleCreatePortfolio_Done(bodyOK, userID, allocation, created) ==
    LET base == [ReqIdle EXCEPT !.pc = "done", !.route = "/portfolio"]
    IN  IF ~bodyOK
        THEN [base EXCEPT !.resp = RespondWithError(400, "Invalid request body")]
        ELSE [base EXCEPT !.UserID = userID, !.NewAllocation = allocation,
                          !.portfolio = created.portfolio, !.calls = created.calls,
                          !.resp = IF created.err # "nil"
                                   THEN RespondWithError(400, created.err)
                                   ELSE [NoResponse EXCEPT !.status = 201]]

handleCreatePortfolio(h) ==
    /\ Accepting(h)
    /\ \E r \in HttpRequests, outcome \in StoreOutcomes :
          LET p == [UserID |-> r.UserID, Allocation |-> r.Allocation,
                    OriginalAllocation |-> EmptyAllocation]
              created == CreatePortfolio(portfolios, p, outcome)
          IN  /\ r.method = "POST"
              /\ req' = [req EXCEPT ![h] = handleCreatePortfolio_Done(r.bodyOK, r.UserID, r.Allocation, created)]
              /\ portfolios' = IF r.bodyOK THEN created.index ELSE portfolios
    /\ started' = started + 1
    /\ UNCHANGED <<consumerVars, calc, val, phase, brokerEnv, writer, publisher, topic, now>>

-----------------------------------------------------------------------------
(* cmd/api main(), lines 42-53                                             *)

Main_InitKafka ==
    /\ phase = "boot"
    /\ \E env \in BrokerEnvs :
          LET k == KafkaInit(env)
          IN  /\ writer' = k.writer
              /\ publisher' = IF k.err # "nil" THEN NilPublisher ELSE NewPublisher(k.writer)
              /\ brokerEnv' = env
    /\ phase' = "serving"
    /\ UNCHANGED <<consumerVars, calc, val, portfolios, topic, req, now, started>>

-----------------------------------------------------------------------------
(* Message values on the topic and encoding/json on them                   *)

\* a message value of length 0
EmptyValue == [bytes |-> "empty"]

\* bytes that are not JSON
GarbageValue == [bytes |-> "not json"]

\* the JSON text null
NullValue == [bytes |-> "null"]

UnmarshalTransaction(obj) ==
    RebalanceTransaction(obj.user_id, obj.action, obj.asset, obj.rebalance_percent, obj.timestamp)

\* json.Unmarshal(message, &transactions) with transactions a
\* []models.RebalanceTransaction: an array decodes element by element, null
\* decodes to the nil slice, everything else is an error
UnmarshalTransactions(value) ==
    IF "array" \in DOMAIN value
    THEN [err |-> "nil",
          transactions |-> [i \in DOMAIN value.array |-> UnmarshalTransaction(value.array[i])]]
    ELSE IF value = NullValue
    THEN [err |-> "nil", transactions |-> <<>>]
    ELSE [err |-> "json: cannot unmarshal", transactions |-> <<>>]

-----------------------------------------------------------------------------
(* internal/repository: the Elasticsearch index "rebalance_transactions"   *)

\* a document id made of the user alone
DocID_UserOnly(tx) == tx.UserID

\* fmt.Sprintf("%s_%s_%s", tx.UserID, tx.Asset, tx.Timestamp)
DocID(tx) == tx.UserID \o "_" \o tx.Asset \o "_" \o ToString(tx.Timestamp)

\* SaveTransaction that lets Elasticsearch pick a fresh document id
SaveTransaction_AutoID(index, tx, outcome) ==
    IF outcome = "error"
    THEN [err |-> "error saving rebalance transaction", index |-> index]
    ELSE IF outcome = "cancelled"
    THEN [err |-> "context canceled", index |-> index]
    ELSE [err |-> "nil",
          index |-> IndexDocument(index, ToString(Cardinality(DOMAIN index)),
                                  MarshalTransaction(tx))]

\* TransactionRepositoryImpl.SaveTransaction.  Its context derives from the
\* one it is given: when that one is cancelled client.Index returns its error
\* and nothing is written
SaveTransaction(index, tx, outcome) ==
    IF outcome = "error"
    THEN [err |-> "error saving rebalance transaction", index |-> index]
    ELSE IF outcome = "cancelled"
    THEN [err |-> "context canceled", index |-> index]
    ELSE [err |-> "nil", index |-> IndexDocument(index, DocID(tx), MarshalTransaction(tx))]

-----------------------------------------------------------------------------
(* pkg/kafka StartConsumer and services ProcessTransactions                *)

\* late records whether the context was already cancelled when the message
\* was fetched; the code does not hold it
NoMessage == [offset |-> -1, value |-> EmptyValue, late |-> FALSE]

\* the consumer before main() calls StartConsumer.  handled, crashes and
\* readErrors record what happened so far; the code does not hold them.
\* reader is the kafka.Reader: "none", "open" or "closed".
ConsumerIdle ==
    [state |-> "NOTSTARTED", pc |-> "-", startErr |-> "nil", offset |-> 0,
     msg |-> NoMessage, batch |-> <<>>, i |-> 0, saves |-> <<>>,
     handled |-> <<>>, readErrors |-> 0, crashes |-> 0, reader |-> "none"]

\* StartConsumer that builds the reader and starts the loop whatever the
\* environment says
StartConsumer_IgnoreConfig(env) == [err |-> "nil", state |-> "RUNNING", reader |-> "open"]

\* StartConsumer, lines 13-59: without KAFKA_BROKER or KAFKA_TOPIC it logs and
\* returns nil; otherwise it builds the reader, starts the goroutine and
\* returns nil
StartConsumer(env) ==
    IF env = "unset"
    THEN [err |-> "nil", state |-> "STOPPED", reader |-> "none"]
    ELSE [err |-> "nil", state |-> "RUNNING", reader |-> "open"]

\* the goroutine returning without the deferred reader.Close()
Consumer_Return_LeaveOpen(c) ==
    [c EXCEPT !.state = "STOPPED", !.pc = "-", !.msg = NoMessage]

\* the goroutine returns (lines 39 and 45) and the deferred reader.Close() of
\* line 32 runs
Consumer_Return(c) ==
    [c EXCEPT !.state = "STOPPED", !.pc = "-", !.msg = NoMessage, !.reader = "closed"]

\* the loop of StartConsumer that returns on every error of ReadMessage
Consumer_ReadFailed_StopOnError(c, err) == Consumer_Return(c)

\* the loop of StartConsumer after ReadMessage returned err, lines 42-49
Consumer_ReadFailed(c, err) ==
    IF err = "context canceled"
    THEN Consumer_Return(c)
    ELSE [c EXCEPT !.pc = "select", !.msg = NoMessage]

\* ProcessTransactions that returns the error of json.Unmarshal
ProcessTransactions_Decode_ReturnError(value) ==
    IF value = EmptyValue
    THEN [returns |-> TRUE, err |-> "nil", transactions |-> <<>>]
    ELSE LET decoded == UnmarshalTransactions(value)
         IN  IF decoded.err # "nil"
             THEN [returns |-> TRUE, err |-> decoded.err, transactions |-> <<>>]
             ELSE [returns |-> Len(decoded.transactions) = 0, err |-> "nil",
                   transactions |-> decoded.transactions]

\* ProcessTransactions up to the loop, lines 104-121 of the rebalance service:
\* whether it returns before the loop, with which error, and the batch decoded
ProcessTransactions_Decode(value) ==
    IF value = EmptyValue
    THEN [returns |-> TRUE, err |-> "nil", transactions |-> <<>>]
    ELSE LET decoded == UnmarshalTransactions(value)
         IN  IF decoded.err # "nil"
             THEN [returns |-> TRUE, err |-> "nil", transactions |-> <<>>]
             ELSE [returns |-> Len(decoded.transactions) = 0, err |-> "nil",
                   transactions |-> decoded.transactions]

\* the handler has returned err for the message in hand: the loop logs an error
\* and goes round, lines 52-55 of the consumer
Consumer_Handled(c, err) ==
    [c EXCEPT !.pc = "select", !.msg = NoMessage, !.batch = <<>>, !.i = 0, !.saves = <<>>,
              !.handled = Append(c.handled, [offset |-> c.msg.offset, err |-> err,
                                             saves |-> c.saves,
                                             readErrors |-> c.readErrors,
                                             late |-> c.msg.late])]

\* the loop of ProcessTransactions that gives up at the first failed save
ProcessTransactions_Saved_AbortOnError(c, err) ==
    LET attempt == [tx |-> c.batch[c.i], err |-> err]
        after   == [c EXCEPT !.saves = Append(c.saves, attempt), !.i = c.i + 1]
    IN  IF err # "nil" THEN Consumer_Handled(after, err)
        ELSE IF c.i = Len(c.batch) THEN Consumer_Handled(after, "nil")
        ELSE after

\* one iteration of the loop of ProcessTransactions, lines 125-131, after
\* SaveTransaction returned err for c.batch[c.i]; after the last one
\* ProcessTransactions returns nil
ProcessTransactions_Saved(c, err) ==
    LET attempt == [tx |-> c.batch[c.i], err |-> err]
        after   == [c EXCEPT !.saves = Append(c.saves, attempt), !.i = c.i + 1]
    IN  IF c.i = Len(c.batch) THEN Consumer_Handled(after, "nil") ELSE after

\* 50/50
A5050 == [a \in {"stocks", "bonds"} |-> 10000]

\* the batch of a rebalance of u1 from 50/50 to 60/40 computed at time clock,
\* as PublishRebalanceTransactions puts it on the topic
BatchAt(clock) ==
    MarshalTransactions(CalculateRebalance(A6040, A5050, "u1", clock,
                                           <<"stocks", "bonds">>, <<"stocks", "bonds">>)).payload

BatchA == BatchAt(0)

BatchB == BatchAt(TicksPerSecond)

\* what arrives on the topic: batches, and values other writers put there
ConsumerValues == {EmptyValue, GarbageValue, NullValue, BatchA, BatchB}

\* the variables the consuming side leaves alone
serverVars == <<calc, val, phase, writer, publisher, portfolios, req, now, started>>

\* a producer appends a value to the topic
Produce ==
    /\ Len(topic) < MaxTopic
    /\ \E v \in ConsumerValues : topic' = Append(topic, v)
    /\ UNCHANGED <<serverVars, brokerEnv, consumerVars>>

\* 40/60
A4060 == [a \in {"stocks", "bonds"} |-> IF a = "stocks" THEN 8000 ELSE 12000]

\* the batch of a second rebalance of u1, from 50/50 to 40/60, computed one
\* tick after BatchA: a later reading of the clock within the same second
BatchSameSecond ==
    MarshalTransactions(CalculateRebalance(A4060, A5050, "u1", 1,
                                           <<"stocks", "bonds">>, <<"stocks", "bonds">>)).payload

\* the batches of two users whose identifiers and assets contain the
\* separator of the document id: user "u1" holding "a_b", user "u1_a"
\* holding "b"; the target of each is 100 in that asset and each reports
\* 50 in it and 50 in bonds
BatchOf(userID, asset) ==
    MarshalTransactions(CalculateRebalance([a \in {asset, "bonds"} |-> 10000],
                                           [a \in {asset} |-> Hundred], userID, 0,
                                           <<asset>>, <<asset, "bonds">>)).payload

\* batches whose transactions meet on a document id
CollidingValues == {BatchA, BatchSameSecond, BatchOf("u1", "a_b"), BatchOf("u1_a", "b")}

\* producers append such batches to the topic
Produce_Colliding ==
    /\ Len(topic) < MaxTopic
    /\ \E v \in CollidingValues : topic' = Append(topic, v)
    /\ UNCHANGED <<serverVars, brokerEnv, consumerVars>>

\* main() calls StartConsumer, line 61
Main_StartConsumer ==
    /\ consumer.state = "NOTSTARTED"
    /\ consumer' = [consumer EXCEPT !.state = "STARTING"]
    /\ UNCHANGED <<serverVars, brokerEnv, topic, group, rebalance_transactions, ctx>>

\* StartConsumer returns; a reader of a consumer group starts at the offset
\* the group has committed
StartConsumer_Return ==
    /\ consumer.state = "STARTING"
    /\ LET started_ == StartConsumer(brokerEnv)
       IN  consumer' = [consumer EXCEPT !.state = started_.state,
                                        !.startErr = started_.err,
                                        !.reader = started_.reader,
                                        !.pc = IF started_.state = "RUNNING" THEN "select" ELSE "-",
                                        !.offset = group]
    /\ UNCHANGED <<serverVars, brokerEnv, topic, group, rebalance_transactions, ctx>>

\* main() cancels the context on SIGINT/SIGTERM, line 99
Main_Cancel ==
    /\ consumer.state \in {"RUNNING", "STOPPED"}
    /\ ctx = "live"
    /\ ctx' = "cancelled"
    /\ UNCHANGED <<serverVars, brokerEnv, topic, consumer, group, rebalance_transactions>>

\* the select at the top of the loop, lines 36-40
Consumer_Select ==
    /\ consumer.state = "RUNNING"
    /\ consumer.pc = "select"
    /\ consumer' = IF ctx = "cancelled"
                   THEN Consumer_Return(consumer)
                   ELSE [consumer EXCEPT !.pc = "fetch"]
    /\ UNCHANGED <<serverVars, brokerEnv, topic, group, rebalance_transactions, ctx>>

\* reader.ReadMessage, first half, when it gets a message: the next one of the
\* topic
Consumer_FetchMessage ==
    /\ consumer.state = "RUNNING"
    /\ consumer.pc = "fetch"
    /\ brokerEnv = "reachable"
    /\ consumer.offset < Len(topic)
    /\ consumer' = [consumer EXCEPT !.pc = "commit",
                                    !.msg = [offset |-> consumer.offset,
                                             value |-> topic[consumer.offset + 1],
                                             late |-> ctx = "cancelled"],
                                    !.offset = consumer.offset + 1]
    /\ UNCHANGED <<serverVars, brokerEnv, topic, group, rebalance_transactions, ctx>>

\* reader.ReadMessage, first half, when it fails: with the error of the
\* context (bare or wrapped), or with a transport error
Consumer_FetchError ==
    /\ consumer.state = "RUNNING"
    /\ consumer.pc = "fetch"
    /\ \/ /\ ctx = "cancelled"
          /\ \E err \in {"context canceled", "fetching message: context canceled"} :
                consumer' = Consumer_ReadFailed(consumer, err)
       \/ /\ ctx = "live"
          /\ consumer.readErrors < MaxReadErrors
          /\ consumer' = Consumer_ReadFailed(
                            [consumer EXCEPT !.readErrors = consumer.readErrors + 1],
                            "kafka read error")
    /\ UNCHANGED <<serverVars, brokerEnv, topic, group, rebalance_transactions, ctx>>

\* reader.ReadMessage, second half: with a GroupID set it commits the offset
\* of the message before it returns it
Consumer_CommitOffset ==
    /\ consumer.state = "RUNNING"
    /\ consumer.pc = "commit"
    /\ group' = consumer.msg.offset + 1
    /\ consumer' = [consumer EXCEPT !.pc = "handle"]
    /\ UNCHANGED <<serverVars, brokerEnv, topic, rebalance_transactions, ctx>>

\* reader.ReadMessage, second half, when the commit fails: it returns an error
\* instead of the message
Consumer_CommitError ==
    /\ consumer.state = "RUNNING"
    /\ consumer.pc = "commit"
    /\ \/ /\ ctx = "cancelled"
          /\ consumer' = Consumer_ReadFailed(consumer, "committing message: context canceled")
       \/ /\ ctx = "live"
          /\ consumer.readErrors < MaxReadErrors
          /\ consumer' = Consumer_ReadFailed(
                            [consumer EXCEPT !.readErrors = consumer.readErrors + 1],
                            "committing message: kafka error")
    /\ UNCHANGED <<serverVars, brokerEnv, topic, group, rebalance_transactions, ctx>>

\* handler(ctx, msg): ProcessTransactions up to its loop
Consumer_Handle ==
    /\ consumer.state = "RUNNING"
    /\ consumer.pc = "handle"
    /\ LET d == ProcessTransactions_Decode(consumer.msg.value)
       IN  consumer' = IF d.returns
                       THEN Consumer_Handled(consumer, d.err)
                       ELSE [consumer EXCEPT !.pc = "save", !.batch = d.transactions, !.i = 1]
    /\ UNCHANGED <<serverVars, brokerEnv, topic, group, rebalance_transactions, ctx>>

\* a consumer that also rewrites the portfolio of the transaction's user
Consumer_Save_TouchPortfolio ==
    /\ consumer.state = "RUNNING"
    /\ consumer.pc = "save"
    /\ \E outcome \in IF ctx = "cancelled" THEN {"cancelled"} ELSE StoreOutcomes :
          LET tx == consumer.batch[consumer.i]
              saved == SaveTransaction(rebalance_transactions, tx, outcome)
          IN  /\ rebalance_transactions' = saved.index
              /\ consumer' = ProcessTransactions_Saved(consumer, saved.err)
              /\ portfolios' = IndexDocument(portfolios, tx.UserID,
                                    MarshalPortfolio([UserID |-> tx.UserID,
                                                      Allocation |-> EmptyAllocation,
                                                      OriginalAllocation |-> EmptyAllocation]))
    /\ UNCHANGED <<calc, val, phase, writer, publisher, req, now, started>>
    /\ UNCHANGED <<brokerEnv, topic, group, ctx>>

\* one SaveTransaction of the loop of ProcessTransactions; under a cancelled
\* context the Elasticsearch call fails
Consumer_Save ==
    /\ consumer.state = "RUNNING"
    /\ consumer.pc = "save"
    /\ \E outcome \in IF ctx = "cancelled" THEN {"cancelled"} ELSE StoreOutcomes :
          LET saved == SaveTransaction(rebalance_transactions, consumer.batch[consumer.i], outcome)
          IN  /\ rebalance_transactions' = saved.index
              /\ consumer' = ProcessTransactions_Saved(consumer, saved.err)
    /\ UNCHANGED <<serverVars, brokerEnv, topic, group, ctx>>

\* the process dies and is started again: memory is lost, the topic, the
\* committed offset and the index are not
Crash ==
    /\ consumer.state = "RUNNING"
    /\ consumer.crashes < MaxCrashes
    /\ consumer' = [ConsumerIdle EXCEPT !.handled = consumer.handled,
                                        !.readErrors = consumer.readErrors,
                                        !.crashes = consumer.crashes + 1]
    /\ ctx' = "live"
    /\ UNCHANGED <<serverVars, brokerEnv, topic, group, rebalance_transactions>>

\* main() after cancel(), lines 102-119: server.Shutdown, writer.Close, and
\* the return of main.  Nothing waits for the consumer goroutine: when main
\* returns while it runs, the process exits and the goroutine ends where it
\* is ("KILLED"), its deferred reader.Close() not run.
Main_Return ==
    /\ ctx = "cancelled"
    /\ phase # "exited"
    /\ phase' = "exited"
    /\ consumer' = IF consumer.state = "RUNNING"
                   THEN [consumer EXCEPT !.state = "KILLED"]
                   ELSE consumer
    /\ UNCHANGED <<calc, val, writer, publisher, portfolios, req, now, started>>
    /\ UNCHANGED <<brokerEnv, topic, group, rebalance_transactions, ctx>>

-----------------------------------------------------------------------------
(* The specifications                                                      *)

SystemIdle ==
    /\ phase = "boot"
    /\ brokerEnv = "unset"
    /\ writer = "nil"
    /\ publisher = NilPublisher
    /\ portfolios = [k \in {} |-> NoDoc]
    /\ topic = <<>>
    /\ req = [h \in Handlers |-> ReqIdle]
    /\ now = 0
    /\ started = 0
    /\ consumer = ConsumerIdle
    /\ group = 0
    /\ rebalance_transactions = [k \in {} |-> NoDoc]
    /\ ctx = "live"

\* the process at the start of main(), the Store empty
Init ==
    /\ calc = CalcIdle
    /\ val = ValIdle
    /\ SystemIdle

Next ==
    \/ Main_InitKafka
    \/ \E h \in Handlers : HandleRebalance_Begin(h)
    \/ \E h \in Handlers : HandleRebalance_GetPortfolio(h)
    \/ \E h \in Handlers : HandleRebalance_Publish(h)
    \/ \E h \in Handlers : HandleRebalance_UpdatePortfolio(h)
    \/ \E h \in Handlers : handleCreatePortfolio(h)

Spec == Init /\ [][Next]_vars

\* the portfolio an earlier run of the process left in the index: u1 at 60/40
StoredPortfolio ==
    [UserID |-> "u1", Allocation |-> A6040, OriginalAllocation |-> A6040]

\* the process at the start of main(), the Store holding that portfolio
InitStored ==
    /\ calc = CalcIdle
    /\ val = ValIdle
    /\ phase = "boot"
    /\ brokerEnv = "unset"
    /\ writer = "nil"
    /\ publisher = NilPublisher
    /\ portfolios = IndexDocument([k \in {} |-> NoDoc], "u1", MarshalPortfolio(StoredPortfolio))
    /\ topic = <<>>
    /\ req = [h \in Handlers |-> ReqIdle]
    /\ now = 0
    /\ started = 0
    /\ consumer = ConsumerIdle
    /\ group = 0
    /\ rebalance_transactions = [k \in {} |-> NoDoc]
    /\ ctx = "live"

SpecStored == InitStored /\ [][Next]_vars

\* CalculateRebalance applied once to inputs drawn from CalcAllocations
InitCalc ==
    /\ calc \in [current : CalcAllocations, target : CalcAllocations, userID : {"u1"},
                 clock : CalcClocks, done : {FALSE}, result : {<<>>}]
    /\ val = ValIdle
    /\ SystemIdle

ApplyCalculateRebalance(targetOrder, currentOrder) ==
    /\ ~calc.done
    /\ calc' = [calc EXCEPT !.done = TRUE,
                            !.result = CalculateRebalance(calc.current, calc.target,
                                           calc.userID, calc.clock, targetOrder, currentOrder)]
    /\ UNCHANGED <<consumerVars, val, phase, brokerEnv, writer, publisher, portfolios, topic, req, now, started>>

NextCalc ==
    \E to \in IterationOrders(calc.target), co \in IterationOrders(calc.current) : ApplyCalculateRebalance(to, co)

SpecCalc == InitCalc /\ [][NextCalc]_vars

\* CalculateRebalance on allocations that each sum to exactly 100: shares
\* within MaxSlack units of 0 and of 100
BalancedValues == (0..MaxSlack) \cup ((Hundred - MaxSlack)..Hundred)

BalancedAllocations ==
    {a \in AllocationsOver(BalancedValues) :
        DOMAIN a # {} /\ SumOver(a, DOMAIN a) = Hundred}

InitCalcBalanced ==
    /\ calc \in [current : BalancedAllocations, target : BalancedAllocations,
                 userID : {"u1"}, clock : CalcClocks, done : {FALSE}, result : {<<>>}]
    /\ val = ValIdle
    /\ SystemIdle

SpecCalcBalanced == InitCalcBalanced /\ [][NextCalc]_vars

\* ValidateAllocation applied once to an input drawn from ValidateValues
InitValidate ==
    /\ calc = CalcIdle
    /\ val \in [allocation : AllocationsOver(ValidateValues), done : {FALSE}, result : {"nil"}]
    /\ SystemIdle

ApplyValidateAllocation ==
    /\ ~val.done
    /\ val' = [val EXCEPT !.done = TRUE, !.result = ValidateAllocation(val.allocation)]
    /\ UNCHANGED <<consumerVars, calc, phase, brokerEnv, writer, publisher, portfolios, topic, req, now, started>>

NextValidate == ApplyValidateAllocation

SpecValidate == InitValidate /\ [][NextValidate]_vars

\* the consuming side alone: main() about to call StartConsumer, the
\* environment any of the three, producers writing to the topic
InitConsumer ==
    /\ calc = CalcIdle
    /\ val = ValIdle
    /\ phase = "boot"
    /\ brokerEnv \in BrokerEnvs
    /\ writer = "nil"
    /\ publisher = NilPublisher
    /\ portfolios = [k \in {} |-> NoDoc]
    /\ topic = <<>>
    /\ req = [h \in Handlers |-> ReqIdle]
    /\ now = 0
    /\ started = 0
    /\ consumer = ConsumerIdle
    /\ group = 0
    /\ rebalance_transactions = [k \in {} |-> NoDoc]
    /\ ctx = "live"

NextConsumer ==
    \/ Produce
    \/ Main_StartConsumer
    \/ StartConsumer_Return
    \/ Main_Cancel
    \/ Consumer_Select
    \/ Consumer_FetchMessage
    \/ Consumer_FetchError
    \/ Consumer_CommitOffset
    \/ Consumer_CommitError
    \/ Consumer_Handle
    \/ Consumer_Save

SpecConsumer == InitConsumer /\ [][NextConsumer]_vars

\* the consumer on a topic that carries the colliding batches
NextColliding ==
    \/ Produce_Colliding
    \/ Main_StartConsumer
    \/ StartConsumer_Return
    \/ Consumer_Select
    \/ Consumer_FetchMessage
    \/ Consumer_CommitOffset
    \/ Consumer_Handle
    \/ Consumer_Save

SpecColliding == InitConsumer /\ [][NextColliding]_vars

\* ReadMessage called with a cancelled context returns the context's error
Consumer_FetchCancelled == Consumer_FetchError /\ ctx = "cancelled"

\* the consumer goroutine keeps being scheduled while the process lives, the
\* Store answers or fails each call, and a read under a cancelled context
\* returns
SpecConsumerFair ==
    /\ SpecConsumer
    /\ WF_vars(Consumer_Select)
    /\ WF_vars(Consumer_FetchCancelled)
    /\ WF_vars(Consumer_CommitOffset)
    /\ WF_vars(Consumer_Handle)
    /\ WF_vars(Consumer_Save)

\* the consuming side with crashes and restarts of the process
NextDelivery ==
    \/ NextConsumer
    \/ Crash

\* the whole process: main() past kafka.Init, the request handlers and the
\* consumer goroutine side by side; the topic holds what the handlers
\* published
NextSystem ==
    \/ Next
    \/ /\ phase = "serving"
       /\ \/ Main_StartConsumer
          \/ StartConsumer_Return
          \/ Consumer_Select
          \/ Consumer_FetchMessage
          \/ Consumer_FetchError
          \/ Consumer_CommitOffset
          \/ Consumer_CommitError
          \/ Consumer_Handle
          \/ Consumer_Save

SpecSystem == Init /\ [][NextSystem]_vars

\* the consumer and the shutdown sequence of main()
NextShutdown ==
    \/ NextConsumer
    \/ Main_Return

SpecShutdown == InitConsumer /\ [][NextShutdown]_vars

SpecDelivery == InitConsumer /\ [][NextDelivery]_vars

\* the same where main() and the consumer goroutine keep being scheduled and
\* the broker keeps answering
SpecDeliveryFair ==
    /\ SpecDelivery
    /\ WF_vars(Main_StartConsumer)
    /\ WF_vars(StartConsumer_Return)
    /\ WF_vars(Consumer_Select)
    /\ WF_vars(Consumer_FetchMessage)
    /\ WF_vars(Consumer_CommitOffset)
    /\ WF_vars(Consumer_Handle)
    /\ WF_vars(Consumer_Save)

-----------------------------------------------------------------------------
(* Properties of CalculateRebalance, checked under SpecCalc                *)

\* 0.01 percentage points in the units of the model
Cent == Hundred \div 10000

\* positions of the transactions of the computed batch that name asset a
CalcTxFor(a) == {i \in DOMAIN calc.result : calc.result[i].Asset = a}

CalcDiff(a) == Lookup(calc.current, a) - Lookup(calc.target, a)

\* C1: for every asset a of targetAllocation, with diff = current[a] - target[a]
\* (current[a] read as 0 when missing), the batch has no transaction for a when
\* |diff| < 0.01, exactly one SELL of diff when diff >= 0.01, and exactly one
\* BUY of |diff| when diff <= -0.01.
C1_TargetAssets ==
    calc.done =>
        \A a \in DOMAIN calc.target :
            /\ Abs(CalcDiff(a)) < Cent => CalcTxFor(a) = {}
            /\ (CalcDiff(a) > 0 /\ Abs(CalcDiff(a)) >= Cent) =>
                   /\ Cardinality(CalcTxFor(a)) = 1
                   /\ \A i \in CalcTxFor(a) :
                          /\ calc.result[i].Action = "SELL"
                          /\ calc.result[i].RebalancePercent = CalcDiff(a)
            /\ (CalcDiff(a) < 0 /\ Abs(CalcDiff(a)) >= Cent) =>
                   /\ Cardinality(CalcTxFor(a)) = 1
                   /\ \A i \in CalcTxFor(a) :
                          /\ calc.result[i].Action = "BUY"
                          /\ calc.result[i].RebalancePercent = Abs(CalcDiff(a))

\* a computed batch for a target of three assets: one exactly 0.01 above
\* target (sold), one missing from current (bought), one 0.005 off (skipped)
C1_Witness ==
    /\ calc.done
    /\ DOMAIN calc.target = Assets
    /\ "bonds" \notin DOMAIN calc.current
    /\ CalcDiff("stocks") = Cent
    /\ CalcDiff("bonds") = -3
    /\ CalcDiff("gold") = -1
    /\ Len(calc.result) = 2

\* C2: for every asset of currentAllocation absent from targetAllocation the
\* batch has exactly one SELL of current[asset] when current[asset] > 0.01 and
\* no transaction for it otherwise.
C2_LeftoverAssets ==
    calc.done =>
        \A a \in DOMAIN calc.current \ DOMAIN calc.target :
            IF calc.current[a] > Cent
            THEN /\ Cardinality(CalcTxFor(a)) = 1
                 /\ \A i \in CalcTxFor(a) :
                        /\ calc.result[i].Action = "SELL"
                        /\ calc.result[i].RebalancePercent = calc.current[a]
            ELSE CalcTxFor(a) = {}

\* two assets dropped from the target, one held at exactly 0.01 (kept out of
\* the batch) and one at 0.015 (sold)
C2_Witness ==
    /\ calc.done
    /\ DOMAIN calc.current = Assets
    /\ DOMAIN calc.target = {"stocks"}
    /\ calc.current["bonds"] = Cent
    /\ calc.current["gold"] = Cent + 1
    /\ CalcTxFor("bonds") = {}
    /\ CalcTxFor("gold") # {}

\* C3: in the computed batch a BUY of p on asset a implies
\* target[a] - current[a] = p and a SELL of p implies current[a] - target[a] = p,
\* a missing entry read as 0.
C3_DiffLaw ==
    calc.done =>
        \A i \in DOMAIN calc.result :
            LET tx == calc.result[i]
            IN  /\ tx.Action \in {"BUY", "SELL"}
                /\ tx.Action = "BUY" => -CalcDiff(tx.Asset) = tx.RebalancePercent
                /\ tx.Action = "SELL" => CalcDiff(tx.Asset) = tx.RebalancePercent

\* a batch holding a BUY, a SELL of a target asset and the SELL of a dropped asset
C3_Witness ==
    /\ calc.done
    /\ \E i, j, k \in DOMAIN calc.result :
          /\ calc.result[i].Action = "BUY"
          /\ calc.result[j].Action = "SELL"
          /\ calc.result[j].Asset \in DOMAIN calc.target
          /\ calc.result[k].Action = "SELL"
          /\ calc.result[k].Asset \notin DOMAIN calc.target

\* the two allocations have the same keys
SameKeys == DOMAIN calc.current = DOMAIN calc.target

\* C4 as stated: identical key sets and every asset equal within 0.01
\* (|current[a] - target[a]| <= 0.01) give an empty batch.
C4_Original ==
    (calc.done /\ SameKeys /\ \A a \in DOMAIN calc.target : Abs(CalcDiff(a)) <= Cent)
        => calc.result = <<>>

\* C4 amended: identical key sets and every asset differing by strictly less
\* than 0.01 give an empty batch.
C4_EmptyBatch ==
    (calc.done /\ SameKeys /\ \A a \in DOMAIN calc.target : Abs(CalcDiff(a)) < Cent)
        => calc.result = <<>>

\* allocations over the three assets that differ, each by less than 0.01
C4_Witness ==
    /\ calc.done
    /\ SameKeys
    /\ DOMAIN calc.target = Assets
    /\ CalcDiff("stocks") = 1
    /\ CalcDiff("bonds") = -1
    /\ CalcDiff("gold") = 0
    /\ calc.result = <<>>

-----------------------------------------------------------------------------
(* Properties of ValidateAllocation, checked under SpecValidate            *)

InvalidAllocation ==
    {"allocation cannot be empty", "allocation cannot be negative",
     "allocation must sum to 100%"}

ValSum == SumOver(val.allocation, DOMAIN val.allocation)

\* C5: ValidateAllocation(A) succeeds if and only if A is non-empty, every
\* value is >= 0 and |sum(A) - 100| <= 0.01; otherwise it returns an
\* InvalidAllocation error.  Zero-valued entries are accepted.
C5_ValidateIff ==
    val.done =>
        IF /\ DOMAIN val.allocation # {}
           /\ \A a \in DOMAIN val.allocation : val.allocation[a] >= 0
           /\ Abs(ValSum - Hundred) <= Cent
        THEN val.result = "nil"
        ELSE val.result \in InvalidAllocation

\* an accepted allocation with a zero entry whose sum is exactly 99.99
C5_Witness ==
    /\ val.done
    /\ val.result = "nil"
    /\ \E a \in DOMAIN val.allocation : val.allocation[a] = 0
    /\ ValSum = Hundred - Cent

-----------------------------------------------------------------------------
(* Properties of the publish step and of the /rebalance handler, checked   *)
(* under Spec                                                              *)

\* the operations of the calls a request has made
CallOps(h) == {req[h].calls[i].op : i \in DOMAIN req[h].calls}

\* handler h serves a /rebalance request that is past its publish step
Published(h) ==
    /\ req[h].route = "/rebalance"
    /\ \/ req[h].pc = "update"
       \/ req[h].pc = "done" /\ req[h].resp.status \in {200, 500}

\* C6: publishing an empty batch returns success and never calls the Queue;
\* no message on the Queue carries an empty batch.
C6_EmptyBatchNotPublished ==
    /\ \A h \in Handlers :
           (Published(h) /\ req[h].transactions = <<>>) =>
               /\ req[h].publishErr = "nil"
               /\ req[h].resp.status # 500
               /\ "WriteMessages" \notin CallOps(h)
    /\ \A i \in DOMAIN topic : topic[i].array # <<>>

\* an empty batch went through the publish step of a process whose writer is
\* set, for an allocation that is not the stored target itself
C6_Witness ==
    \E h \in Handlers :
        /\ Published(h)
        /\ req[h].transactions = <<>>
        /\ publisher = NewPublisher("set")
        /\ req[h].NewAllocation # req[h].portfolio.OriginalAllocation

\* C7: when the Queue's publish reports an error for a non-empty batch,
\* PublishRebalanceTransactions returns a PublishFailure error: the request
\* ends with the 500 response and nothing of the batch is on the Queue.
C7_QueueErrorReported ==
    \A h \in Handlers :
        (\E i \in DOMAIN req[h].calls :
            req[h].calls[i].op = "WriteMessages" /\ req[h].calls[i].err # "nil") =>
            /\ req[h].transactions # <<>>
            /\ req[h].publishErr = "failed to publish transactions"
            /\ req[h].pc = "done"
            /\ req[h].resp.status = 500

\* a request whose WriteMessages call returned an error
C7_Witness ==
    \E h \in Handlers :
        /\ Call("WriteMessages", "kafka error") \in
               {req[h].calls[i] : i \in DOMAIN req[h].calls}
        /\ req[h].resp.status = 500

\* C8 as stated: when no Queue backend was successfully initialised at process
\* start (not configured, or configured but the broker unreachable), publishing
\* a non-empty batch returns success without attempting any Queue write.
C8_DegradedNoOp ==
    \A h \in Handlers :
        (Published(h) /\ req[h].transactions # <<>> /\ brokerEnv # "reachable") =>
            /\ req[h].publishErr = "nil"
            /\ "WriteMessages" \notin CallOps(h)

\* the messages a rebalance request may answer for an invalid allocation
InvalidAllocationMessages ==
    InvalidAllocation \cup {"new_allocation is required and cannot be empty"}

\* handler h has decoded a /rebalance request with a user identifier whose
\* allocation ValidateAllocation rejects
InvalidRebalance(h) ==
    /\ req[h].route = "/rebalance"
    /\ req[h].UserID # ""
    /\ ValidateAllocation(req[h].NewAllocation) # "nil"

\* C9, state part: such a request is answered 400 with the validation error
\* and has made no Store read, no Queue publish and no Store write.
C9_Rejected ==
    \A h \in Handlers :
        InvalidRebalance(h) =>
            /\ req[h].pc = "done"
            /\ req[h].resp.status = 400
            /\ req[h].resp.message \in InvalidAllocationMessages
            /\ req[h].calls = <<>>

\* C9, step part: the step that rejects it leaves the stored portfolios and
\* the Queue as they were.
C9_Step ==
    \A h \in Handlers :
        (req'[h] # req[h] /\ req'[h].route = "/rebalance" /\ req'[h].UserID # ""
         /\ ValidateAllocation(req'[h].NewAllocation) # "nil") =>
            (portfolios' = portfolios /\ topic' = topic)

\* C9: a rebalance request whose new allocation fails validation fails with
\* InvalidAllocation before any Store read, Queue publish or Store write; the
\* stored portfolio and the Queue are unchanged.
C9_InvalidFailsFast == []C9_Rejected /\ [][C9_Step]_vars

\* a request with an allocation summing to 90 was rejected while a portfolio
\* for its user is stored
C9_Witness ==
    \E h \in Handlers :
        /\ InvalidRebalance(h)
        /\ req[h].NewAllocation = A6030
        /\ req[h].resp.status = 400
        /\ req[h].UserID \in DOMAIN portfolios

\* C10: the load step of a rebalance request for a user with no stored
\* portfolio ends the request with the 404 "portfolio not found" response;
\* the request has made the Store read only, and the step leaves the stored
\* portfolios and the Queue as they were.
C10_Step ==
    \A h \in Handlers :
        (req[h].pc = "load" /\ req'[h] # req[h] /\ req[h].UserID \notin DOMAIN portfolios) =>
            /\ req'[h].pc = "done"
            /\ req'[h].resp.status = 404
            /\ req'[h].resp.message = "User portfolio not found"
            /\ {req'[h].calls[i].op : i \in DOMAIN req'[h].calls} = {"Get"}
            /\ portfolios' = portfolios
            /\ topic' = topic

C10_NotFound == [][C10_Step]_vars

\* a request answered 404 after Elasticsearch reported the document missing
C10_Witness ==
    \E h \in Handlers :
        /\ req[h].route = "/rebalance"
        /\ req[h].pc = "done"
        /\ req[h].resp.status = 404
        /\ req[h].calls = <<Call("Get", "user not found")>>
        /\ req[h].UserID \notin DOMAIN portfolios

-----------------------------------------------------------------------------
(* The request after the publish step                                      *)

\* handler h is serving, or has served, a /rebalance request whose publish
\* step returned an error
PublishFailed(h) == req[h].route = "/rebalance" /\ req[h].publishErr # "nil"

\* positions of the Store writes ("Index") in the calls of h
IndexCalls(h) == {i \in DOMAIN req[h].calls : req[h].calls[i].op = "Index"}

C11_State ==
    \A h \in Handlers :
        PublishFailed(h) =>
            /\ req[h].pc = "done"
            /\ req[h].resp.status = 500
            /\ IndexCalls(h) = {}

C11_Step ==
    \A h \in Handlers :
        (req'[h] # req[h] /\ req'[h].route = "/rebalance" /\ req'[h].publishErr # "nil") =>
            /\ portfolios' = portfolios
            /\ rebalance_transactions' = rebalance_transactions

\* C11: a /rebalance request whose publish step fails has answered 500 and is
\* over, has made no write to the Store, and the step in which the publish
\* fails leaves the portfolio index and the transaction index as they were
C11_PublishFailureReported == []C11_State /\ [][C11_Step]_vars

C11_Witness ==
    \E h \in Handlers :
        /\ PublishFailed(h)
        /\ req[h].resp.status = 500
        /\ Len(req[h].transactions) > 0
        /\ req[h].UserID \in DOMAIN portfolios
        /\ portfolios[req[h].UserID].allocation # req[h].NewAllocation
        /\ req[h].calls[Len(req[h].calls)] = Call("WriteMessages", "kafka error")

C12_State ==
    \A h \in Handlers :
        (req[h].route = "/rebalance" /\ IndexCalls(h) # {}) =>
            /\ req[h].pc = "done"
            /\ req[h].publishErr = "nil"
            /\ IndexCalls(h) = {Len(req[h].calls)}

C12_Step ==
    \A h \in Handlers :
        ( /\ req[h].pc = "update"
          /\ req'[h].pc = "done"
          /\ req'[h].calls = req[h].calls \o <<Call("Index", "nil")>> ) =>
            /\ req[h].UserID \in DOMAIN portfolios'
            /\ portfolios'[req[h].UserID].allocation = req[h].NewAllocation

\* C12: the portfolio write of a /rebalance request is the last call the
\* request makes and comes only after a publish step that returned no error;
\* when that write succeeds the stored allocation of the user is the new
\* allocation of the request
C12_CurrentOverwritten == []C12_State /\ [][C12_Step]_vars

C12_Witness ==
    \E h \in Handlers :
        /\ req[h].route = "/rebalance"
        /\ req[h].pc = "done"
        /\ req[h].calls = <<Call("Get", "nil"), Call("WriteMessages", "nil"), Call("Index", "nil")>>
        /\ portfolios[req[h].UserID].allocation = req[h].NewAllocation
        /\ portfolios[req[h].UserID].original_allocation # req[h].NewAllocation

\* the same with an empty batch: nothing is enqueued, the write still happens
C12_WitnessEmptyBatch ==
    \E h \in Handlers :
        /\ req[h].route = "/rebalance"
        /\ req[h].pc = "done"
        /\ req[h].transactions = <<>>
        /\ req[h].calls = <<Call("Get", "nil"), Call("Index", "nil")>>
        /\ portfolios[req[h].UserID].allocation = req[h].NewAllocation
        /\ portfolios[req[h].UserID].original_allocation # req[h].NewAllocation

\* handler h has finished a /rebalance request whose portfolio write failed
UpdateFailed(h) ==
    /\ req[h].route = "/rebalance"
    /\ req[h].pc = "done"
    /\ req[h].calls # <<>>
    /\ req[h].calls[Len(req[h].calls)].op = "Index"
    /\ req[h].calls[Len(req[h].calls)].err # "nil"

C13_State ==
    \A h \in Handlers :
        UpdateFailed(h) =>
            /\ req[h].resp.status = 200
            /\ req[h].resp.transactions = req[h].transactions
            /\ req[h].resp.transaction_count = Len(req[h].transactions)

C13_Step ==
    /\ Len(topic') >= Len(topic)
    /\ SubSeq(topic', 1, Len(topic)) = topic

\* C13: a /rebalance request whose portfolio write failed answers 200 with the
\* batch it computed, and no step ever takes a message off the topic
C13_UpdateFailureTolerated == []C13_State /\ [][C13_Step]_vars

C13_Witness ==
    \E h \in Handlers :
        /\ UpdateFailed(h)
        /\ Len(req[h].transactions) > 0
        /\ req[h].resp.status = 200
        /\ Call("WriteMessages", "nil") \in {req[h].calls[i] : i \in DOMAIN req[h].calls}
        /\ \E k \in DOMAIN topic :
              topic[k] = MarshalTransactions(req[h].transactions).payload

-----------------------------------------------------------------------------
(* The consumer                                                            *)

\* the value of the k-th message the handler has returned from
HandledValue(k) == topic[consumer.handled[k].offset + 1]

\* a value of length 0, or one json.Unmarshal rejects
Undecodable(v) == v = EmptyValue \/ UnmarshalTransactions(v).err # "nil"

C14_State ==
    \A k \in DOMAIN consumer.handled :
        Undecodable(HandledValue(k)) =>
            /\ consumer.handled[k].err = "nil"
            /\ consumer.handled[k].saves = <<>>

C14_Step ==
    (consumer.pc = "handle" /\ Undecodable(consumer.msg.value) /\ consumer' # consumer) =>
        /\ rebalance_transactions' = rebalance_transactions
        /\ consumer'.state = "RUNNING"
        /\ consumer'.pc = "select"
        /\ Len(consumer'.handled) = Len(consumer.handled) + 1

\* C14: for a message value that is empty or does not decode, the handler
\* returns nil having made no save, the index is left as it was, and the
\* consumer is back at the top of its loop, still running
C14_BadPayloadSkipped == []C14_State /\ [][C14_Step]_vars

C14_Witness ==
    /\ Len(consumer.handled) = 2
    /\ HandledValue(1) = GarbageValue
    /\ consumer.handled[1].err = "nil"
    /\ HandledValue(2) = BatchA
    /\ Len(consumer.handled[2].saves) = 2
    /\ consumer.handled[2].saves[1].err = "nil"
    /\ consumer.state = "RUNNING"

\* the same after an empty value
C14_WitnessEmpty ==
    /\ Len(consumer.handled) = 2
    /\ HandledValue(1) = EmptyValue
    /\ HandledValue(2) = BatchA
    /\ Len(consumer.handled[2].saves) = 2

\* the transactions of a message value that decodes
Decoded(v) == UnmarshalTransactions(v).transactions

\* the transactions of a sequence of save attempts
Attempted(saves) == [j \in DOMAIN saves |-> saves[j].tx]

C15_State ==
    /\ \A k \in DOMAIN consumer.handled :
          ~Undecodable(HandledValue(k)) =>
              /\ Attempted(consumer.handled[k].saves) = Decoded(HandledValue(k))
              /\ consumer.handled[k].err = "nil"
    /\ consumer.pc = "save" =>
          /\ consumer.batch = Decoded(consumer.msg.value)
          /\ consumer.i = Len(consumer.saves) + 1
          /\ Attempted(consumer.saves) = SubSeq(consumer.batch, 1, consumer.i - 1)

C15_Step ==
    (consumer.pc = "save" /\ consumer.i = Len(consumer.batch) /\ consumer' # consumer) =>
        /\ consumer'.state = "RUNNING"
        /\ consumer'.pc = "select"
        /\ Len(consumer'.handled) = Len(consumer.handled) + 1

\* C15: when the handler returns from a batch it has attempted the save of
\* each transaction once, in the order of the batch, whatever the earlier
\* saves returned, and it returns nil; after the last save the consumer is
\* back at the top of its loop, still running
C15_EverySaveAttempted == []C15_State /\ [][C15_Step]_vars

C15_Witness ==
    \E k \in DOMAIN consumer.handled :
        /\ Len(consumer.handled[k].saves) = 2
        /\ consumer.handled[k].saves[1].err # "nil"
        /\ consumer.handled[k].saves[2].err = "nil"
        /\ consumer.handled[k].err = "nil"
        /\ k < Len(consumer.handled)

\* every transaction that can be on the topic
TopicTransactions ==
    UNION {{Decoded(v)[j] : j \in DOMAIN Decoded(v)} : v \in ConsumerValues}

\* C16: saving a transaction into an index that already holds the result of
\* saving it changes nothing: the second save writes the same document under
\* the same id
C16_SaveIdempotent ==
    \A tx \in TopicTransactions :
        LET once == SaveTransaction(rebalance_transactions, tx, "ok").index
        IN  /\ DocID(tx) \in DOMAIN once
            /\ once[DocID(tx)] = MarshalTransaction(tx)
            /\ SaveTransaction(once, tx, "ok").index = once

\* the attempts of all messages, finished or in hand
AllSaves ==
    UNION {{consumer.handled[k].saves[j] : j \in DOMAIN consumer.handled[k].saves} :
              k \in DOMAIN consumer.handled}
    \cup {consumer.saves[j] : j \in DOMAIN consumer.saves}

\* the transactions saved without error so far
SavedOK == {a.tx : a \in {b \in AllSaves : b.err = "nil"}}

C16_Witness ==
    \E k1, k2 \in DOMAIN consumer.handled :
        /\ k1 < k2
        /\ consumer.handled[k1].saves # <<>>
        /\ consumer.handled[k2].saves # <<>>
        /\ consumer.handled[k1].saves[1] = consumer.handled[k2].saves[1]
        /\ consumer.handled[k1].saves[1].err = "nil"
        /\ rebalance_transactions[DocID(consumer.handled[k1].saves[1].tx)] =
              MarshalTransaction(consumer.handled[k1].saves[1].tx)

Triple(tx) == <<tx.UserID, tx.Asset, tx.Timestamp>>

\* C17: however often a batch is delivered, the index holds one document per
\* (user, asset, timestamp) of the transactions saved without error, and that
\* document is the transaction as a single save writes it
C17_NoDuplicateRecords ==
    /\ Cardinality(DOMAIN rebalance_transactions) = Cardinality({Triple(tx) : tx \in SavedOK})
    /\ \A tx \in SavedOK :
          /\ DocID(tx) \in DOMAIN rebalance_transactions
          /\ rebalance_transactions[DocID(tx)] = MarshalTransaction(tx)

\* the same batch handled twice, every save without error
C17_Witness ==
    /\ Len(consumer.handled) = 2
    /\ HandledValue(1) = BatchA
    /\ HandledValue(2) = BatchA
    /\ \A k \in 1..2 :
          /\ Len(consumer.handled[k].saves) = 2
          /\ \A j \in 1..2 : consumer.handled[k].saves[j].err = "nil"
    /\ Cardinality(DOMAIN rebalance_transactions) = 2

\* the message at offset o has been handed to ProcessTransactions
Processed(o) ==
    \/ \E k \in DOMAIN consumer.handled : consumer.handled[k].offset = o
    \/ consumer.pc \in {"handle", "save"} /\ consumer.msg.offset = o

\* C18: at-least-once delivery would have every message on the topic of a
\* reachable, configured broker handed to ProcessTransactions sooner or later,
\* crashes of the process included, unless the context is cancelled or
\* ReadMessage has returned an error
C18_AtLeastOnce ==
    \A o \in 0..(MaxTopic - 1) :
        (Len(topic) > o /\ brokerEnv = "reachable")
            ~> (Processed(o) \/ ctx = "cancelled" \/ consumer.readErrors > 0)

\* the offset of a message is committed although the message was never handed
\* to ProcessTransactions and the process that fetched it is gone
C18_Lost ==
    \E o \in 0..(MaxTopic - 1) :
        /\ o < group
        /\ ~Processed(o)
        /\ consumer.crashes > 0
        /\ consumer.readErrors = 0

C19_State ==
    brokerEnv = "unset" =>
        /\ consumer.state \in {"NOTSTARTED", "STARTING", "STOPPED"}
        /\ consumer.startErr = "nil"
        /\ consumer.msg = NoMessage
        /\ consumer.offset = 0
        /\ consumer.handled = <<>>
        /\ group = 0
        /\ DOMAIN rebalance_transactions = {}

C19_Step ==
    (brokerEnv = "unset" /\ consumer.state = "STARTING" /\ consumer' # consumer) =>
        consumer'.state = "STOPPED"

\* C19: without KAFKA_BROKER or KAFKA_TOPIC the consumer is never running:
\* StartConsumer returns nil, the consumer goes from STARTING to STOPPED, and
\* no message is fetched, committed, handled or saved
C19_UnconfiguredStops == []C19_State /\ [][C19_Step]_vars

C19_Witness ==
    /\ brokerEnv = "unset"
    /\ consumer.state = "STOPPED"
    /\ consumer.startErr = "nil"
    /\ Len(topic) = MaxTopic
    /\ BatchA \in {topic[k] : k \in DOMAIN topic}

C20_State ==
    (consumer.readErrors > 0 /\ ctx = "live") => consumer.state = "RUNNING"

C20_Step ==
    (consumer.state = "RUNNING" /\ consumer'.state # "RUNNING") => ctx = "cancelled"

\* C20: as long as the context is not cancelled the consumer is running after
\* any number of read errors, and the consumer leaves RUNNING only in a step
\* taken with the context cancelled
C20_ReadErrorsRetried == []C20_State /\ [][C20_Step]_vars

\* a message handled after the read errors, the consumer still running
C20_Witness ==
    /\ consumer.state = "RUNNING"
    /\ ctx = "live"
    /\ consumer.readErrors = MaxReadErrors
    /\ \E k \in DOMAIN consumer.handled :
          /\ consumer.handled[k].readErrors = MaxReadErrors
          /\ HandledValue(k) = BatchA
          /\ Len(consumer.handled[k].saves) = 2

\* ---------------------------------------------------------------------------
\* C21  the message in flight when the context is cancelled

\* the save attempts of ProcessTransactions that failed because the context
\* they were given was cancelled
CancelledSaves(saves) == {j \in DOMAIN saves : saves[j].err = "context canceled"}

\* C21: a message fetched before the cancellation is processed to its end as
\* it would be without the cancellation: none of its SaveTransaction calls
\* fails because of the cancelled context
C21_InFlightFinishes ==
    /\ \A k \in DOMAIN consumer.handled :
          ~consumer.handled[k].late => CancelledSaves(consumer.handled[k].saves) = {}
    /\ (consumer.pc = "save" /\ ~consumer.msg.late) => CancelledSaves(consumer.saves) = {}

\* the batch was fetched and committed under a live context, the context was
\* cancelled while it was being processed, both saves failed, nothing was
\* written and the consumer has stopped
C21_Dropped ==
    /\ consumer.state = "STOPPED"
    /\ group = 1
    /\ DOMAIN rebalance_transactions = {}
    /\ Len(consumer.handled) = 1
    /\ ~consumer.handled[1].late
    /\ CancelledSaves(consumer.handled[1].saves) = {1, 2}

\* ---------------------------------------------------------------------------
\* C22  the consumer stops after the cancellation and stays stopped

\* a step of a stopped consumer: nothing is fetched, committed or saved
C22_Step ==
    consumer.state = "STOPPED" =>
        /\ consumer' = consumer
        /\ group' = group
        /\ rebalance_transactions' = rebalance_transactions

C23_ShutdownWaits ==
    phase = "exited" => ~(consumer.state = "KILLED" /\ consumer.pc \in {"handle", "save"})

\* main() returned while the consumer was between two saves of a batch: one
\* transaction of the batch is indexed, the other never will be
C23_CutOff ==
    /\ phase = "exited"
    /\ consumer.state = "KILLED"
    /\ consumer.pc = "save"
    /\ consumer.i = 2
    /\ consumer.reader = "open"

\* ---------------------------------------------------------------------------
\* C28  no new work after the cancellation

\* C28: a message fetched after the cancellation is never handed to
\* ProcessTransactions
C28_NoLateWork ==
    /\ \A k \in DOMAIN consumer.handled : ~consumer.handled[k].late
    /\ consumer.pc \in {"handle", "save"} => ~consumer.msg.late

\* the context was cancelled between the select of line 37 and ReadMessage;
\* ReadMessage still delivered a message, the handler ran on it under the
\* cancelled context and saved nothing, and the offset is committed
C28_LateHandled ==
    /\ consumer.state = "STOPPED"
    /\ Len(consumer.handled) = 1
    /\ consumer.handled[1].late
    /\ CancelledSaves(consumer.handled[1].saves) = {1, 2}
    /\ group = 1
    /\ DOMAIN rebalance_transactions = {}

-----------------------------------------------------------------------------
(* Portfolio creation                                                      *)

\* handler h has just answered a POST /portfolio
CreateStep(h) == req'[h] # req[h] /\ req'[h].route = "/portfolio"

Created(r) == r.route = "/portfolio" /\ r.pc = "done" /\ r.resp.status = 201

\* the portfolio CreatePortfolio returned has the submitted allocation as its
\* current allocation and as its target, and the target is not empty
C25_State ==
    \A h \in Handlers :
        Created(req[h]) =>
            /\ req[h].portfolio.UserID = req[h].UserID
            /\ req[h].portfolio.Allocation = req[h].NewAllocation
            /\ req[h].portfolio.OriginalAllocation = req[h].NewAllocation
            /\ DOMAIN req[h].portfolio.OriginalAllocation # {}

\* the step of a successful creation leaves that portfolio in the index under
\* the user's identifier
C25_Step ==
    \A h \in Handlers :
        (CreateStep(h) /\ Created(req'[h])) =>
            /\ req'[h].UserID \in DOMAIN portfolios'
            /\ UnmarshalPortfolio(portfolios'[req'[h].UserID]) =
                  [UserID |-> req'[h].UserID, Allocation |-> req'[h].NewAllocation,
                   OriginalAllocation |-> req'[h].NewAllocation]

\* C25: a successful CreatePortfolio stores under the user's identifier a
\* portfolio whose allocation and original_allocation both equal the
\* submitted allocation, and returns it with a non-empty original_allocation
C25_CreateStoresTarget == []C25_State /\ [][C25_Step]_vars

\* a creation succeeded with the three-asset allocation and the index holds it
C25_Witness ==
    \E h \in Handlers :
        /\ Created(req[h])
        /\ req[h].NewAllocation = A503020
        /\ "u1" \in DOMAIN portfolios
        /\ UnmarshalPortfolio(portfolios["u1"]).OriginalAllocation = A503020
        /\ UnmarshalPortfolio(portfolios["u1"]).Allocation = A503020

\* the error CreatePortfolio returns before it calls the repository, by the
\* order of its checks; "nil" when every check passes
CreateRejection(userID, allocation) ==
    IF userID = "" THEN "user_id is required and cannot be empty"
    ELSE IF DOMAIN allocation = {} THEN "allocation is required and cannot be empty"
    ELSE ValidateAllocation(allocation)

\* a POST /portfolio whose body decoded and which one of the checks rejects
Rejected(r) ==
    /\ r.route = "/portfolio"
    /\ r.pc = "done"
    /\ r.resp.message # "Invalid request body"
    /\ CreateRejection(r.UserID, r.NewAllocation) # "nil"

C26_State ==
    \A h \in Handlers :
        Rejected(req[h]) =>
            /\ req[h].resp.status = 400
            /\ req[h].resp.message = CreateRejection(req[h].UserID, req[h].NewAllocation)
            /\ req[h].calls = <<>>
            /\ req[h].portfolio = NoDoc

C26_Step ==
    \A h \in Handlers :
        (CreateStep(h) /\ Rejected(req'[h])) => portfolios' = portfolios

\* C26: CreatePortfolio rejects an empty user identifier, then an empty
\* allocation, then an allocation ValidateAllocation refuses, each with its
\* own error, without calling the repository and without changing the index
C26_CreateRejects == []C26_State /\ [][C26_Step]_vars

\* a request with neither user identifier nor allocation was rejected for the
\* identifier, and one with an allocation summing to 90 for the sum
C26_Witness ==
    \E h1, h2 \in Handlers :
        /\ Rejected(req[h1])
        /\ req[h1].UserID = ""
        /\ req[h1].NewAllocation = EmptyAllocation
        /\ req[h1].resp.message = "user_id is required and cannot be empty"
        /\ Rejected(req[h2])
        /\ req[h2].UserID = "u1"
        /\ req[h2].NewAllocation = A6030
        /\ req[h2].calls = <<>>

-----------------------------------------------------------------------------
(* The stored target                                                       *)

\* handler h takes a step of a rebalance request
RebalanceStep(h) == req'[h] # req[h] /\ req'[h].route = "/rebalance"

\* the portfolio request h loaded is no longer the one in the index as far as
\* the target goes: a creation for the same user ran in between
Overlapped(h) ==
    /\ req[h].pc = "update"
    /\ req[h].UserID \in DOMAIN portfolios
    /\ UnmarshalPortfolio(portfolios[req[h].UserID]).OriginalAllocation #
          req[h].portfolio.OriginalAllocation

C24_Step ==
    \A h \in Handlers :
        (RebalanceStep(h) /\ ~Overlapped(h)) =>
            /\ DOMAIN portfolios' = DOMAIN portfolios
            /\ \A u \in DOMAIN portfolios :
                  /\ UnmarshalPortfolio(portfolios'[u]).OriginalAllocation =
                        UnmarshalPortfolio(portfolios[u]).OriginalAllocation
                  /\ UnmarshalPortfolio(portfolios'[u]).UserID =
                        UnmarshalPortfolio(portfolios[u]).UserID

-----------------------------------------------------------------------------
(* Publish and consume                                                     *)

\* handler h has just made the publish step of a rebalance request
PublishStep(h) == req[h].pc = "publish" /\ req'[h].pc # "publish"

\* the Queue accepted the message of the publish step h made
Accepted(h) ==
    /\ Len(req'[h].calls) = Len(req[h].calls) + 1
    /\ req'[h].calls[Len(req'[h].calls)] = Call("WriteMessages", "nil")

C30_Step ==
    \A h \in Handlers :
        PublishStep(h) =>
            IF Accepted(h)
            THEN /\ req'[h].transactions # <<>>
                 /\ Len(topic') = Len(topic) + 1
                 /\ SubSeq(topic', 1, Len(topic)) = topic
                 /\ ~ProcessTransactions_Decode(topic'[Len(topic')]).returns
                 /\ ProcessTransactions_Decode(topic'[Len(topic')]).transactions =
                       req'[h].transactions
            ELSE topic' = topic

-----------------------------------------------------------------------------
(* Requests and backends that do not answer                                *)

\* C27: no rebalance request waits without bound in one of its I/O calls:
\* each call returns or times out, so no handler is ever stuck
C27_NoRequestHangs == \A h \in Handlers : req[h].pc # "blocked"

\* a request loaded its portfolio, computed a batch and waits in
\* WriteMessages; it has no response and no step of its own left
C27_Stuck ==
    \E h \in Handlers :
        /\ req[h].pc = "blocked"
        /\ req[h].transactions # <<>>
        /\ req[h].resp = NoResponse
        /\ ~ENABLED HandleRebalance_UpdatePortfolio(h)

-----------------------------------------------------------------------------
(* Who writes which index                                                  *)

\* a step of a request handler: a request is accepted or moves on
HandlerStep == req' # req \/ started' # started

C29_Step ==
    /\ rebalance_transactions' # rebalance_transactions =>
          /\ consumer' # consumer
          /\ ~HandlerStep
          /\ portfolios' = portfolios
    /\ consumer' # consumer => portfolios' = portfolios
    /\ portfolios' # portfolios =>
          /\ HandlerStep
          /\ consumer' = consumer
          /\ rebalance_transactions' = rebalance_transactions
    /\ HandlerStep => rebalance_transactions' = rebalance_transactions

\* C29: a step that changes the index rebalance_transactions is a step of the
\* consumer and leaves every portfolio as it was; no step of the consumer
\* changes a portfolio; a step that changes a portfolio is a step of a request
\* handler and leaves rebalance_transactions as it was, as does every step of
\* a request handler
C29_SeparateWriters == [][C29_Step]_vars

\* a request created a portfolio, a rebalance changed it and published its
\* batch, and the consumer indexed the transactions of that batch
C29_Witness ==
    /\ "u1" \in DOMAIN portfolios
    /\ UnmarshalPortfolio(portfolios["u1"]).Allocation #
          UnmarshalPortfolio(portfolios["u1"]).OriginalAllocation
    /\ Len(topic) = 1
    /\ Len(consumer.handled) = 1
    /\ DOMAIN rebalance_transactions # {}
    /\ \A id \in DOMAIN rebalance_transactions : rebalance_transactions[id].user_id = "u1"

-----------------------------------------------------------------------------
(* Further properties of CalculateRebalance, checked under SpecCalc        *)

\* C31: every transaction of the batch one CalculateRebalance call returns
\* carries the user identifier the call was given and the one timestamp
\* formatted from the clock reading taken at the start of the call
C31_OneUserOneTimestamp ==
    calc.done =>
        \A i \in DOMAIN calc.result :
            /\ calc.result[i].UserID = calc.userID
            /\ calc.result[i].Timestamp = FormatRFC3339(calc.clock)

\* a batch with a transaction of the first loop and one of the second
C31_Witness ==
    /\ calc.done
    /\ Len(calc.result) = 2
    /\ calc.result[1].Asset \in DOMAIN calc.target
    /\ calc.result[2].Asset \notin DOMAIN calc.target
    /\ calc.result[1].Timestamp = calc.result[2].Timestamp

\* C38: the batch holds at most one transaction per asset, and the asset of
\* every transaction is a key of currentAllocation or of targetAllocation
C38_OnePerAsset ==
    calc.done =>
        /\ \A i, j \in DOMAIN calc.result :
              calc.result[i].Asset = calc.result[j].Asset => i = j
        /\ \A i \in DOMAIN calc.result :
              calc.result[i].Asset \in DOMAIN calc.current \cup DOMAIN calc.target

\* three assets, one in both allocations, one only in the target, one only
\* in the current allocation: three transactions, one each
C38_Witness ==
    /\ calc.done
    /\ Len(calc.result) = 3
    /\ DOMAIN calc.current \cap DOMAIN calc.target # {}
    /\ DOMAIN calc.target \ DOMAIN calc.current # {}
    /\ DOMAIN calc.current \ DOMAIN calc.target # {}

-----------------------------------------------------------------------------
(* SELL and BUY totals, checked under SpecCalcBalanced                     *)

\* the sum of rebalance_percent over the transactions of one action
RECURSIVE ActionTotal(_, _)
ActionTotal(transactions, action) ==
    IF transactions = <<>> THEN 0
    ELSE (IF Head(transactions).Action = action
          THEN Head(transactions).RebalancePercent ELSE 0)
         + ActionTotal(Tail(transactions), action)

BothSumToHundred ==
    /\ SumOver(calc.current, DOMAIN calc.current) = Hundred
    /\ SumOver(calc.target, DOMAIN calc.target) = Hundred

\* the target assets whose difference is inside the dead band, and the
\* assets held but not targeted whose share is at most 0.01
InDeadBand == {a \in DOMAIN calc.target : Abs(CalcDiff(a)) < Cent}

BelowDivest == {a \in DOMAIN calc.current \ DOMAIN calc.target : calc.current[a] <= Cent}

\* what CalculateRebalance leaves out: the differences of those assets
LeftOut == SumOver([a \in InDeadBand \cup BelowDivest |-> CalcDiff(a)], InDeadBand \cup BelowDivest)

\* C39: when both allocations sum to exactly 100 the SELL total of the batch
\* equals its BUY total
C39_Original ==
    (calc.done /\ BothSumToHundred) =>
        ActionTotal(calc.result, "SELL") = ActionTotal(calc.result, "BUY")

\* C39 amended: the SELL total exceeds the BUY total by exactly minus the sum
\* of the differences left out by the dead band and the divest threshold; the
\* two totals are equal when nothing is left out and otherwise differ by less
\* than 0.01 per asset in the dead band plus at most 0.01 per untargeted
\* asset below the threshold
C39_TotalsUpToDeadBand ==
    (calc.done /\ BothSumToHundred) =>
        /\ ActionTotal(calc.result, "SELL") - ActionTotal(calc.result, "BUY") = -LeftOut
        /\ Abs(ActionTotal(calc.result, "SELL") - ActionTotal(calc.result, "BUY"))
              <= (Cent - 1) * Cardinality(InDeadBand) + Cent * Cardinality(BelowDivest)
        /\ \A i \in DOMAIN calc.result : calc.result[i].RebalancePercent > 0

\* stocks 0.01 above target is sold, bonds and gold 0.005 below each are
\* left alone: SELL 0.01, BUY nothing
C39_Witness ==
    /\ calc.done
    /\ BothSumToHundred
    /\ DOMAIN calc.target = Assets
    /\ InDeadBand # {}
    /\ Len(calc.result) = 1
    /\ calc.result[1].Action = "SELL"
    /\ calc.result[1].RebalancePercent = Cent

-----------------------------------------------------------------------------
(* The publisher main() hands to the rebalance service                     *)

\* C37: whatever kafka.Init met (variables unset, broker reachable, broker
\* unreachable), the publisher given to the rebalance service is not nil, and
\* no publish of a batch went through a nil publisher
C37_PublisherNeverNil ==
    /\ phase = "serving" => publisher # NilPublisher
    /\ \A h \in Handlers : req[h].publishErr # "panic: nil pointer dereference"

\* a non-empty batch went through the publisher built without a writer
C37_Witness ==
    \E h \in Handlers :
        /\ brokerEnv = "unset"
        /\ publisher = NewPublisher("nil")
        /\ Published(h)
        /\ req[h].transactions # <<>>
        /\ req[h].publishErr = "nil"

\* the same with an unreachable broker: the publisher holds the writer
C37_WitnessUnreachable ==
    \E h \in Handlers :
        /\ brokerEnv = "unreachable"
        /\ publisher = NewPublisher("set")
        /\ Published(h)
        /\ req[h].transactions # <<>>

-----------------------------------------------------------------------------
(* What the caller is told about the queue                                 *)

\* handler h answered that the transactions were queued
SaidQueued(h) ==
    /\ req[h].route = "/rebalance"
    /\ req[h].pc = "done"
    /\ req[h].resp.message = "Rebalance transactions queued for processing"

\* C34: a response saying the transactions were queued is given only after
\* the Queue accepted the batch, whatever kafka.Init met at start-up
C34_QueuedMeansQueued ==
    \A h \in Handlers :
        SaidQueued(h) =>
            \E i \in DOMAIN req[h].calls : req[h].calls[i] = Call("WriteMessages", "nil")

\* KAFKA_BROKER unset: the request answered 200 "queued" with a batch of
\* transactions, no call to the Queue was made and the topic is empty
C34_SaidQueuedUnqueued ==
    \E h \in Handlers :
        /\ brokerEnv = "unset"
        /\ SaidQueued(h)
        /\ req[h].resp.status = 200
        /\ req[h].resp.transaction_count > 0
        /\ "WriteMessages" \notin CallOps(h)
        /\ topic = <<>>

-----------------------------------------------------------------------------
(* Not found and Store failures                                            *)

\* handler h answered that the user's portfolio was not found
SaidNotFound(h) ==
    /\ req[h].route = "/rebalance"
    /\ req[h].pc = "done"
    /\ req[h].resp.status = 404

\* C35: a rebalance request is answered "not found" only when the Store
\* reported that the user has no portfolio, never when the load itself failed
C35_NotFoundOnlyWhenAbsent ==
    \A h \in Handlers :
        SaidNotFound(h) => req[h].calls = <<Call("Get", "user not found")>>

\* the portfolio of u1 is in the index, the load failed with a Store error
\* and the request was answered 404
C35_NotFoundButPresent ==
    \E h \in Handlers :
        /\ SaidNotFound(h)
        /\ req[h].UserID \in DOMAIN portfolios
        /\ req[h].calls = <<Call("Get", "elasticsearch error")>>
        /\ req[h].resp.message = "User portfolio not found"

-----------------------------------------------------------------------------
(* A creation and a rebalance for the same user, checked under SpecStored  *)

\* handler hc has created a portfolio for u, handler hr has finished a
\* rebalance for u, and no other request was served
BothCompleted(hc, hr, u) ==
    /\ started = 2
    /\ Created(req[hc])
    /\ req[hc].UserID = u
    /\ req[hr].route = "/rebalance"
    /\ req[hr].pc = "done"
    /\ req[hr].UserID = u

\* C36: once a creation for u and a rebalance for u have both completed,
\* however their steps interleaved, the stored original_allocation of u is
\* the allocation the creation submitted
C36_CreationWins ==
    \A hc, hr \in Handlers :
        BothCompleted(hc, hr, "u1") =>
            UnmarshalPortfolio(portfolios["u1"]).OriginalAllocation = req[hc].NewAllocation

\* the rebalance loaded the 60/40 target, the creation then stored 50/30/20
\* as target, and the rebalance's save put 60/40 back
C36_OldTargetRestored ==
    \E hc, hr \in Handlers :
        /\ BothCompleted(hc, hr, "u1")
        /\ req[hc].NewAllocation = A503020
        /\ req[hr].resp.status = 200
        /\ req[hr].portfolio.OriginalAllocation = A6040
        /\ UnmarshalPortfolio(portfolios["u1"]).OriginalAllocation = A6040

-----------------------------------------------------------------------------
(* Document ids that meet, checked under SpecColliding                     *)

\* the save attempts without error of the k-th handled message
SavedBy(k) ==
    {consumer.handled[k].saves[j].tx :
        j \in {i \in DOMAIN consumer.handled[k].saves : consumer.handled[k].saves[i].err = "nil"}}

\* C32: transactions of two CalculateRebalance calls for the same user and
\* asset that differ are stored as two records: they never share a document
\* id, so a later batch does not overwrite a record of an earlier one
C32_LaterBatchKeepsEarlier ==
    \A k1, k2 \in DOMAIN consumer.handled :
        \A t1 \in SavedBy(k1), t2 \in SavedBy(k2) :
            (t1.UserID = t2.UserID /\ t1.Asset = t2.Asset /\ t1 # t2)
                => DocID(t1) # DocID(t2)

\* the SELL of stocks of the first batch was saved, then the BUY of stocks of
\* the second batch of the same second: the index holds the BUY only
C32_Overwritten ==
    /\ Len(consumer.handled) = 2
    /\ HandledValue(1) = BatchA
    /\ HandledValue(2) = BatchSameSecond
    /\ \A k \in {1, 2} : Cardinality(SavedBy(k)) = 2
    /\ Cardinality(DOMAIN rebalance_transactions) = 2
    /\ \A id \in DOMAIN rebalance_transactions :
          rebalance_transactions[id] \notin {MarshalTransaction(t) : t \in SavedBy(1)}

\* C33: two transactions saved without error that differ in user, asset or
\* timestamp are stored under different document ids
C33_DocIDInjective ==
    \A k1, k2 \in DOMAIN consumer.handled :
        \A t1 \in SavedBy(k1), t2 \in SavedBy(k2) :
            Triple(t1) # Triple(t2) => DocID(t1) # DocID(t2)

\* the transaction of user "u1" on asset "a_b" and the one of user "u1_a" on
\* asset "b" were both saved and the index holds one document for the two
C33_SharedKey ==
    /\ Len(consumer.handled) = 2
    /\ HandledValue(1) = BatchOf("u1", "a_b")
    /\ HandledValue(2) = BatchOf("u1_a", "b")
    /\ \A k \in {1, 2} : Cardinality(SavedBy(k)) = 2
    /\ DOMAIN rebalance_transactions = {"u1_a_b_0", "u1_bonds_0", "u1_a_bonds_0"}
    /\ rebalance_transactions["u1_a_b_0"].user_id = "u1_a"

====
